---------------------------- MODULE Spec2Model ----------------------------
(***************************************************************************)
(* Gold provenance prototype: the provenance service (batch creation,      *)
(* custody events, verification), its stores, the hashing service and the  *)
(* blockchain anchoring service, as one state machine.                     *)
(*                                                                         *)
(* JavaScript values are written as follows.  Identifiers (uuid strings)   *)
(* are the strings "b1", "e1", "d1", "p1", ...; a fresh uuid is the next   *)
(* unused number behind its letter.  null and undefined are the two        *)
(* reserved strings Null and Undefined, which no identifier equals.  An    *)
(* ISO timestamp is the number of the clock tick it was taken at.  An      *)
(* object {weight, unit} is the pair <<weight, unit>> and a null in its    *)
(* place is the empty tuple.                                               *)
(***************************************************************************)
EXTENDS Integers, Sequences, FiniteSets, TLC

\* ------------------------------------------------------------- bounds
MaxBatches == 1      \* createBatchAtMine calls in one behaviour
MaxEvents == 3       \* createEvent calls in one behaviour
MaxTime == 1         \* clock ticks
MaxImports == 1      \* importData calls in one behaviour
MaxInFlight == 2     \* service calls waiting for the anchoring service
MaxCalls == 2        \* calls of the hashing service on one record

\* ------------------------------------------------------- input domains
Null == "<null>"
Undefined == "<undefined>"
EmptyString == ""
Parties == {"p1", "p2"}
OriginFacility == "f1"
Commodity == "Gold Dore"
OtherCommodity == "Silver"
ReferenceNumbers == {"REF-1"}
BatchWeights == {25}
\* receiptData.receivedWeight; 0 when the request gives none
ReceivedWeights == {0, 24}
AssayValues == {90}
\* a party id of a request body; Undefined when the request gives none
PartyInputs == Parties
\* the owner of a new batch
OwnerInputs == {"p1"}
ActorInputs == {"p2"}
DocumentIdInputs == {<<>>}

\* ------------------------------------------------- src/models/index.js
BatchStatus ==
  [CREATED |-> "Created", IN_TRANSIT |-> "InTransit", RECEIVED |-> "Received",
   CLOSED |-> "Closed", DISPUTE |-> "Dispute"]

EventType ==
  [CREATE |-> "Create", TRANSFER |-> "Transfer", SHIP |-> "Ship",
   RECEIVE |-> "Receive", INSPECT_TEST |-> "InspectTest",
   ASSAY_FINALIZED |-> "AssayFinalized", DISPUTE |-> "Dispute",
   RESOLVE |-> "Resolve"]

\* JavaScript truthiness of a string-or-null value and of a number.
Falsy(x) == x \in {Null, Undefined, EmptyString}

\* a || b
OrElse(a, b) == IF Falsy(a) THEN b ELSE a

\* A default parameter value applies to undefined only.
Default(a, d) == IF a = Undefined THEN d ELSE a

createBatch(id, ts, externalReferenceNumber, ownerPartyId, weight) ==
  [batchId |-> id,
   externalReferenceNumber |-> externalReferenceNumber,
   commodityType |-> Commodity,
   originFacilityId |-> OriginFacility,
   ownerPartyId |-> ownerPartyId,
   creationTimestamp |-> ts,
   quantity |-> <<weight, "kg">>,
   declaredAssay |-> <<>>,
   status |-> BatchStatus.CREATED,
   documentIds |-> <<>>,
   eventIds |-> <<>>]

createEvent(id, ts, eventType, batchId, fromPartyId, toPartyId, fromFacilityId, toFacilityId, weight, documentIds) ==
  [eventId |-> id,
   eventType |-> eventType,
   eventTimestamp |-> ts,
   batchId |-> batchId,
   fromPartyId |-> Default(fromPartyId, Null),
   toPartyId |-> Default(toPartyId, Null),
   fromFacilityId |-> Default(fromFacilityId, Null),
   toFacilityId |-> Default(toFacilityId, Null),
   quantity |-> IF weight # 0 THEN <<weight, "kg">> ELSE <<>>,
   references |-> documentIds,
   eventPayloadHash |-> Null,
   onChainTxHash |-> Null]

\* ----------------------------------------------- hashing.js (part_005)
\* A JavaScript value handed to the canonical encoder, by its type.
JNull == [t |-> "null"]
JUndef == [t |-> "undef"]
JStr(s) == [t |-> "str", s |-> s]
JNum(n) == [t |-> "num", n |-> n]
JArr(a) == [t |-> "arr", a |-> a]
\* An object is its list of <<key, value>> in insertion order.
JObj(o) == [t |-> "obj", o |-> o]
\* NaN, a function, and an object that holds itself under one of its keys.
JNaN == [t |-> "nan"]
JFunc == [t |-> "func"]
JCycle == [t |-> "cycle"]

\* A string-or-null field as a JavaScript value.
JVal(x) == IF x = Null THEN JNull ELSE IF x = Undefined THEN JUndef ELSE JStr(x)
JStrs(seq) == JArr([i \in 1..Len(seq) |-> JStr(seq[i])])
JQuantity(q) ==
  IF q = <<>> THEN JNull
  ELSE JObj(<<<<"weight", JNum(q[1])>>, <<"unit", JStr(q[2])>>>>)
JAssay(q) ==
  IF q = <<>> THEN JNull
  ELSE JObj(<<<<"value", JNum(q[1])>>, <<"unit", JStr(q[2])>>>>)
\* An event with no property `quantity`: reading it gives undefined.
AbsentQuantity == <<Undefined>>
JTime(ts) == JStr("T" \o ToString(ts))

\* Every key of the model's objects, in the order of Array.prototype.sort()
\* (UTF-16 code units).
KeyOrder ==
  <<"batchId", "commodityType", "creationTimestamp", "declaredAssay",
    "eventId", "eventTimestamp", "eventType", "externalReferenceNumber",
    "fromFacilityId", "fromPartyId", "originFacilityId", "ownerPartyId",
    "quantity", "references", "toFacilityId", "toPartyId", "unit", "value",
    "weight">>

Quote(s) == "\"" \o s \o "\""

RECURSIVE Join(_)
Join(strs) ==
  IF Len(strs) = 0 THEN ""
  ELSE IF Len(strs) = 1 THEN strs[1]
  ELSE strs[1] \o "," \o Join(Tail(strs))

\* The value stored under key k (objects of the model hold a key once).
Lookup(o, k) == (CHOOSE i \in 1..Len(o) : o[i][1] = k)

\* A faulty variant of SortedKeys: the keys in insertion order, not sorted.
KeysAsInserted(o) ==
  LET idx == SelectSeq([i \in 1..Len(o) |-> i], LAMBDA i : o[i][2].t # "undef")
  IN [j \in 1..Len(idx) |-> o[idx[j]][1]]

\* Object.keys(obj).sort().filter(key => obj[key] !== undefined)
SortedKeys(o) ==
  SelectSeq(KeyOrder,
            LAMBDA k : \E i \in 1..Len(o) : o[i][1] = k /\ o[i][2].t # "undef")

\* Array.prototype.join and string concatenation of what canonicalizeJSON
\* returned for an element: join renders undefined as the empty string, `+`
\* renders it as "undefined".
Joined(c) == IF c = Undefined THEN "" ELSE c
Concatenated(c) == IF c = Undefined THEN "undefined" ELSE c

\* canonicalizeJSON(obj): a string, or undefined where JSON.stringify answers
\* undefined (undefined itself, a function).  JSON.stringify(NaN) is "null".
\* On an object that holds itself the recursion does not return: see
\* encodingThrows.
RECURSIVE canonicalizeJSON(_)
canonicalizeJSON(v) ==
  CASE v.t = "null" -> "null"
    [] v.t = "undef" -> Undefined
    [] v.t = "func" -> Undefined
    [] v.t = "nan" -> "null"
    [] v.t = "cycle" -> Undefined
    [] v.t = "str" -> Quote(v.s)
    [] v.t = "num" -> ToString(v.n)
    [] v.t = "arr" ->
         "[" \o Join([i \in 1..Len(v.a) |-> Joined(canonicalizeJSON(v.a[i]))]) \o "]"
    [] v.t = "obj" ->
         LET keys == SortedKeys(v.o)
         IN "{" \o Join([i \in 1..Len(keys) |->
                          Quote(keys[i]) \o ":"
                          \o Concatenated(canonicalizeJSON(v.o[Lookup(v.o, keys[i])][2]))])
                \o "}"

\* canonicalizeJSON(obj) exceeds the call stack (RangeError): obj holds, at
\* some depth, an object that holds itself.
RECURSIVE encodingThrows(_)
encodingThrows(v) ==
  CASE v.t = "cycle" -> TRUE
    [] v.t = "arr" -> \E i \in 1..Len(v.a) : encodingThrows(v.a[i])
    [] v.t = "obj" -> \E i \in 1..Len(v.o) : encodingThrows(v.o[i][2])
    [] OTHER -> FALSE

\* The digest of a text, taken as collision-free: the text under a tag.
sha256Text(text) == "sha256(" \o text \o ")"

\* sha256 of an object: the digest of its canonical encoding.
sha256(data) == sha256Text(canonicalizeJSON(data))

\* What a call sha256(data) on a value that is neither a string nor a Buffer
\* comes to: the digest, or the error thrown, by canonicalizeJSON (RangeError)
\* or by hash.update on undefined (TypeError).
fingerprint(data) ==
  IF encodingThrows(data)
  THEN [error |-> "RangeError", canonical |-> Null, digest |-> Null]
  ELSE IF canonicalizeJSON(data) = Undefined
  THEN [error |-> "TypeError", canonical |-> Null, digest |-> Null]
  ELSE [error |-> Null, canonical |-> canonicalizeJSON(data), digest |-> sha256(data)]

computeEventHash(event) ==
  sha256(JObj(<<
    <<"eventId", JVal(event.eventId)>>,
    <<"eventType", JVal(event.eventType)>>,
    <<"eventTimestamp", JTime(event.eventTimestamp)>>,
    <<"batchId", JVal(event.batchId)>>,
    <<"fromPartyId", JVal(OrElse(event.fromPartyId, Null))>>,
    <<"toPartyId", JVal(OrElse(event.toPartyId, Null))>>,
    <<"fromFacilityId", JVal(OrElse(event.fromFacilityId, Null))>>,
    <<"toFacilityId", JVal(OrElse(event.toFacilityId, Null))>>,
    <<"quantity", JQuantity(IF event.quantity = AbsentQuantity THEN <<>> ELSE event.quantity)>>,
    <<"references", JStrs(event.references)>> >>))

computeBatchHash(batch) ==
  sha256(JObj(<<
    <<"batchId", JVal(batch.batchId)>>,
    <<"externalReferenceNumber", JVal(batch.externalReferenceNumber)>>,
    <<"commodityType", JVal(batch.commodityType)>>,
    <<"originFacilityId", JVal(batch.originFacilityId)>>,
    <<"ownerPartyId", JVal(batch.ownerPartyId)>>,
    <<"creationTimestamp", JTime(batch.creationTimestamp)>>,
    <<"quantity", JQuantity(batch.quantity)>>,
    <<"declaredAssay", JAssay(batch.declaredAssay)>> >>))


\* ---------------------------------------------------------------- state
VARIABLES
  usePersistent,          \* USE_PERSISTENT_DB is not 'false': the file-based store
  now,                    \* the clock new Date() reads
  nextBatch,              \* batch uuids handed out so far
  nextEvent,              \* event uuids handed out so far
  heap,                   \* the batch objects, by reference
  batches,                \* db.batches: <<batchId, reference>> in insertion order
  events,                 \* db.events: the event objects in insertion order
  documents,              \* db.documents: the document objects in insertion order
  auditLog,               \* db.auditLog
  contractAddress,        \* a contract address is configured
  simulationMode,         \* anchoringService.simulationMode
  provider,               \* anchoringService.provider is set
  simulatedTransactions,  \* anchoringService.simulatedTransactions
  ops,                    \* the service calls waiting for the anchoring service
  verif,                  \* the verifyBatchIntegrity call of the behaviour
  lastError,              \* the error the last rejected call threw
  nImports,               \* importData calls so far
  pristine,               \* history: each event as the service saved it
  custody,                \* what the last getChainOfCustody call returned
  fp,                     \* a record handed to the hashing service, and its calls
  docCalls,               \* the registerDocument requests, and the last verifyDocument call
  disk                    \* the JSON files of the file-based store, and the loadAll calls

vars ==
  <<usePersistent, now, nextBatch, nextEvent, heap, batches, events, documents, auditLog,
    contractAddress, simulationMode, provider, simulatedTransactions, ops,
    verif, lastError, nImports, pristine, custody, fp, docCalls, disk>>

store == <<heap, batches, events, documents, auditLog>>
anchoring == <<simulationMode, provider, simulatedTransactions>>
config == <<usePersistent, contractAddress>>

NullRef == 0
NoError == [batchId |-> Null, error |-> Null]
\* An answer of verifyAnchor: local when it is given without the provider.
NoCheck == [verified |-> FALSE, error |-> FALSE, threw |-> FALSE, local |-> FALSE]
NoFingerprinting == [input |-> JNull, reordered |-> FALSE, calls |-> <<>>]
NoDocumentCalls == [registered |-> <<>>, verified |-> <<>>]
NoFiles == [batches |-> <<>>, events |-> <<>>, documents |-> <<>>, loads |-> 0]
NoCustody ==
  [batchId |-> Null, found |-> FALSE, status |-> Null, currentCustodian |-> Null,
   timeline |-> <<>>, documentCount |-> 0, verificationStatus |-> Null]
IdleVerification ==
  [pc |-> "idle", batchId |-> Null, events |-> <<>>, known |-> <<>>, idx |-> 0,
   check |-> NoCheck, error |-> Null, computedBatchHash |-> Null,
   overallValid |-> TRUE, batchHashValid |-> TRUE, results |-> <<>>,
   anchorVerifications |-> <<>>]

\* ------------------------------------------- database.js / persistent-database.js
\* logAction: one entry at the end of the audit log.
logAction(log, action, entityType, entityId) ==
  Append(log, [action |-> action, entityType |-> entityType, entityId |-> entityId])

\* Map.set(key, value) on a map kept as its entries in insertion order.
MapSet(entries, key, value) ==
  IF \E i \in 1..Len(entries) : entries[i][1] = key
  THEN [i \in 1..Len(entries) |->
          IF entries[i][1] = key THEN <<key, value>> ELSE entries[i]]
  ELSE Append(entries, <<key, value>>)

\* this.events.set(event.eventId, event)
EventsSet(evs, event) ==
  IF \E i \in 1..Len(evs) : evs[i].eventId = event.eventId
  THEN [i \in 1..Len(evs) |->
          IF evs[i].eventId = event.eventId THEN event ELSE evs[i]]
  ELSE Append(evs, event)

\* this.batches.get(batchId) || null
getBatch(batchId) ==
  IF \E i \in 1..Len(batches) : batches[i][1] = batchId
  THEN batches[CHOOSE i \in 1..Len(batches) : batches[i][1] = batchId][2]
  ELSE NullRef

\* Array.prototype.sort with (a, b) => new Date(a.eventTimestamp) - new Date(
\* b.eventTimestamp): stable, so events of one timestamp keep their order.
InsertByTimestamp(sorted, e) ==
  LET k == Cardinality({i \in 1..Len(sorted) : sorted[i].eventTimestamp <= e.eventTimestamp})
  IN SubSeq(sorted, 1, k) \o <<e>> \o SubSeq(sorted, k + 1, Len(sorted))

RECURSIVE SortByTimestamp(_)
SortByTimestamp(evs) ==
  IF evs = <<>> THEN <<>>
  ELSE InsertByTimestamp(SortByTimestamp(SubSeq(evs, 1, Len(evs) - 1)), evs[Len(evs)])

\* database.js getEventsByBatch: the batch's events sorted by eventTimestamp.
getEventsByBatch(evs, batchId) ==
  SortByTimestamp(SelectSeq(evs, LAMBDA e : e.batchId = batchId))

\* persistent-database.js getEventsForBatch: the comparator reads the field
\* `timestamp`, which no event has, so it answers NaN for every pair and the
\* sort keeps the insertion order.
getEventsForBatch(evs, batchId) ==
  SelectSeq(evs, LAMBDA e : e.batchId = batchId)

\* db.getEventsByBatch of the store the service was started with.
dbEventsByBatch(batchId) ==
  IF usePersistent THEN getEventsForBatch(events, batchId)
  ELSE getEventsByBatch(events, batchId)

StoredBatchIds == {batches[i][1] : i \in 1..Len(batches)}

\* Object.fromEntries(this.batches) as JSON.stringify writes it: the batch
\* objects themselves, in the order of the map.
batchValues(entries, objects) == [i \in 1..Len(entries) |-> objects[entries[i][2]]]

\* saveCollection(collection, map) of the file-based store: the file of the
\* collection is rewritten from the map as it is now; the in-memory store
\* writes no file.
saveCollection(files, collection, records) ==
  IF usePersistent THEN [files EXCEPT ![collection] = records] ELSE files

\* ------------------------------------------------------------ anchoring.js
\* The transaction hash of the anchor of id: a fresh value, named by the id.
TxHashOf(id) == "tx(" \o id \o ")"

\* anchorHash up to its first await: in simulation mode the record is pushed
\* and the answer is ready; otherwise the transaction is sent to the contract.
anchorRecord(id, hash) == [id |-> id, hash |-> hash, txHash |-> TxHashOf(id)]
\* A faulty variant of anchorHashSent: the simulated transaction is not kept.
anchorHashNotRecorded(id, hash) == simulatedTransactions
anchorHashSent(id, hash) ==
  IF simulationMode
  THEN Append(simulatedTransactions, anchorRecord(id, hash))
  ELSE simulatedTransactions
anchorHashCall(id) ==
  [simulated |-> simulationMode, txHash |-> TxHashOf(id)]

\* What anchorHash resolves to: success with the transaction hash, or, when
\* the contract call failed, success = false and no txHash.
AnchorAnswers(call) ==
  IF call.simulated
  THEN {[success |-> TRUE, txHash |-> call.txHash]}
  ELSE {[success |-> TRUE, txHash |-> call.txHash],
        [success |-> FALSE, txHash |-> Undefined]}

anchorBatchId(batchId) == "batch:" \o batchId
anchorEventId(eventId) == "event:" \o eventId


\* connect(privateKey), with a private key or without one.  The contract
\* address is that of the configuration (config.contractAddress or the
\* environment's CONTRACT_ADDRESS), the same for every call of one process.
Connect(withKey) ==
  /\ provider' = TRUE
  /\ simulationMode' = IF withKey THEN ~contractAddress ELSE simulationMode
  /\ <<provider', simulationMode'>> # <<provider, simulationMode>>
  /\ UNCHANGED <<config, disk, docCalls, custody, fp, now, nextBatch, nextEvent, store, simulatedTransactions, ops, verif, lastError, nImports, pristine>>

\* switchNetwork(networkKey) with a known key.
SwitchNetwork ==
  /\ provider
  /\ provider' = FALSE
  /\ UNCHANGED <<config, disk, docCalls, custody, fp, now, nextBatch, nextEvent, store, simulationMode,
                 simulatedTransactions, ops, verif, lastError, nImports, pristine>>

\* ------------------------------------------------ provenance.js (part_004)
\* The batch ids of requests: those createBatchAtMine may hand out, and one
\* it never does.
BatchIdInputs == {"b" \o ToString(i) : i \in 1..(MaxBatches + 1)}

\* The environment makes no new call once the verification has returned.
CanCall == verif.pc # "done"

CanStart ==
  /\ CanCall
  /\ Cardinality(ops) < MaxInFlight
  /\ nextEvent < MaxEvents

Tick ==
  /\ now < MaxTime
  /\ now' = now + 1
  /\ UNCHANGED <<config, disk, docCalls, custody, fp, nextBatch, nextEvent, store, anchoring, ops, verif,
                 lastError, nImports, pristine>>

\* A faulty variant of withHash: the fingerprint is taken before the quantity
\* is set.
withHashBeforeQuantity(event) ==
  [event EXCEPT !.eventPayloadHash = computeEventHash([event EXCEPT !.quantity = <<>>])]

\* event.eventPayloadHash = computeEventHash(event)
withHash(event) == [event EXCEPT !.eventPayloadHash = computeEventHash(event)]

\* createBatchAtMine up to its first await (lines 108-134).
createBatchAtMine(reference, owner, weight, documentIds) ==
  /\ CanStart
  /\ LET batchId == "b" \o ToString(nextBatch + 1)
         eventId == "e" \o ToString(nextEvent + 1)
         batch == [createBatch(batchId, now, reference, owner, weight)
                     EXCEPT !.documentIds = documentIds]
         event == withHash(createEvent(eventId, now, EventType.CREATE, batchId,
                                       Null, batch.ownerPartyId, Null,
                                       batch.originFacilityId, weight, documentIds))
         batchHash == computeBatchHash(batch)
     IN /\ simulatedTransactions' = anchorHashSent(anchorBatchId(batchId), batchHash)
        /\ ops' = ops \cup
             {[op |-> "createBatchAtMine", pc |-> "anchorBatch", batch |-> NullRef,
               newBatch |-> <<batch>>, event |-> event,
               call |-> anchorHashCall(anchorBatchId(batchId)),
               party |-> owner, assay |-> 0]}
  /\ nextBatch' = nextBatch + 1
  /\ nextEvent' = nextEvent + 1
  /\ lastError' = NoError
  /\ UNCHANGED <<config, disk, docCalls, custody, fp, now, store, simulationMode, provider, verif, nImports, pristine>>

CreateBatchStart(reference, owner, weight, documentIds) ==
  /\ nextBatch < MaxBatches
  /\ createBatchAtMine(reference, owner, weight, documentIds)

\* createBatchAtMine from the answer of anchorBatch to the await of anchorEvent
\* (lines 134-135).
CreateBatchAnchored(p) ==
  /\ p \in ops
  /\ p.op = "createBatchAtMine"
  /\ p.pc = "anchorBatch"
  /\ simulatedTransactions' =
       anchorHashSent(anchorEventId(p.event.eventId), p.event.eventPayloadHash)
  /\ ops' = (ops \ {p}) \cup
       {[p EXCEPT !.pc = "anchorEvent",
                  !.call = anchorHashCall(anchorEventId(p.event.eventId))]}
  /\ UNCHANGED <<config, disk, docCalls, custody, fp, now, nextBatch, nextEvent, store, simulationMode,
                 provider, verif, lastError, nImports, pristine>>

\* documentIds.forEach: a stored document of the list is linked to the batch
\* and to its Create event.
linkDocuments(docs, documentIds, batchId, eventId) ==
  [i \in 1..Len(docs) |->
     IF \E j \in 1..Len(documentIds) : documentIds[j] = docs[i].documentId
     THEN [docs[i] EXCEPT !.relatedBatchId = batchId, !.relatedEventId = eventId]
     ELSE docs[i]]

\* createBatchAtMine from the answer of anchorEvent on (lines 137-158).
CreateBatchSave(p) ==
  /\ p \in ops
  /\ p.op = "createBatchAtMine"
  /\ p.pc = "anchorEvent"
  /\ \E eventAnchor \in AnchorAnswers(p.call) :
       LET event == [p.event EXCEPT !.onChainTxHash = eventAnchor.txHash]
           batch == [p.newBatch[1] EXCEPT !.eventIds = Append(@, event.eventId)]
           ref == Len(heap) + 1
       IN /\ heap' = Append(heap, batch)
          /\ batches' = MapSet(batches, batch.batchId, ref)
          /\ events' = EventsSet(events, event)
          /\ auditLog' = logAction(logAction(auditLog, "CREATE", "Batch", batch.batchId),
                                   "CREATE", "Event", event.eventId)
          /\ documents' = linkDocuments(documents, event.references,
                                        batch.batchId, event.eventId)
          /\ disk' = saveCollection(saveCollection(disk, "batches",
                                                   batchValues(batches', heap')),
                                    "events", events')
          /\ pristine' = pristine \cup {event}
  /\ ops' = ops \ {p}
  /\ UNCHANGED <<config, docCalls, custody, fp, now, nextBatch, nextEvent, anchoring, verif, lastError, nImports>>

RecordOps ==
  {"recordShipment", "recordTransfer", "recordReceipt", "recordInspection",
   "recordAssayFinalized", "recordDispute"}

\* The request bodies of an event-recording call: the party it names, the
\* received weight (recordReceipt) and the assay value (recordAssayFinalized).
RecordInputs(op) ==
  [party : IF op \in {"recordShipment", "recordTransfer", "recordReceipt"}
           THEN PartyInputs ELSE ActorInputs,
   weight : IF op = "recordReceipt" THEN ReceivedWeights ELSE {0},
   assay : IF op = "recordAssayFinalized" THEN AssayValues ELSE {0}]

\* The event each event-recording call creates from the batch it read.
recordedEvent(op, eventId, ts, batchId, batch, in) ==
  CASE op = "recordShipment" ->
         createEvent(eventId, ts, EventType.SHIP, batchId, batch.ownerPartyId, in.party, OrElse(Undefined, batch.originFacilityId), Undefined, batch.quantity[1], <<>>)
    [] op = "recordTransfer" ->
         createEvent(eventId, ts, EventType.TRANSFER, batchId, batch.ownerPartyId, in.party, Undefined, Undefined, batch.quantity[1], <<>>)
    [] op = "recordReceipt" ->
         createEvent(eventId, ts, EventType.RECEIVE, batchId, batch.ownerPartyId, in.party, Null, Undefined, IF in.weight # 0 THEN in.weight ELSE batch.quantity[1], <<>>)
    [] op = "recordInspection" ->
         createEvent(eventId, ts, EventType.INSPECT_TEST, batchId, in.party, Null, Undefined, Null, batch.quantity[1], <<>>)
    [] op = "recordAssayFinalized" ->
         createEvent(eventId, ts, EventType.ASSAY_FINALIZED, batchId, in.party, Null, Undefined, Null, batch.quantity[1], <<>>)
    [] op = "recordDispute" ->
         createEvent(eventId, ts, EventType.DISPUTE, batchId, in.party, Null, Null, Null, 0, <<>>)

\* A faulty variant of updatedBatch: recordTransfer leaves the owner alone.
updatedBatchTransferKeepsOwner(op, batch, eventId, party, assay) ==
  LET b == [batch EXCEPT !.eventIds = Append(@, eventId)]
  IN CASE op = "recordShipment" -> [b EXCEPT !.status = BatchStatus.IN_TRANSIT]
       [] op = "recordTransfer" -> b
       [] op = "recordReceipt" ->
            [b EXCEPT !.status = BatchStatus.RECEIVED, !.ownerPartyId = party]
       [] op = "recordInspection" -> b
       [] op = "recordAssayFinalized" -> [b EXCEPT !.declaredAssay = <<assay, "g/t">>]
       [] op = "recordDispute" -> [b EXCEPT !.status = BatchStatus.DISPUTE]

\* A faulty variant of updatedBatch: recordInspection does not push the event
\* id on the batch's list.
updatedBatchInspectionUnlisted(op, batch, eventId, party, assay) ==
  LET b == [batch EXCEPT !.eventIds = Append(@, eventId)]
  IN CASE op = "recordShipment" -> [b EXCEPT !.status = BatchStatus.IN_TRANSIT]
       [] op = "recordTransfer" -> [b EXCEPT !.ownerPartyId = party]
       [] op = "recordReceipt" ->
            [b EXCEPT !.status = BatchStatus.RECEIVED, !.ownerPartyId = party]
       [] op = "recordInspection" -> batch
       [] op = "recordAssayFinalized" -> [b EXCEPT !.declaredAssay = <<assay, "g/t">>]
       [] op = "recordDispute" -> [b EXCEPT !.status = BatchStatus.DISPUTE]

\* A faulty variant of updatedBatch: recordShipment leaves the status alone.
updatedBatchShipKeepsStatus(op, batch, eventId, party, assay) ==
  LET b == [batch EXCEPT !.eventIds = Append(@, eventId)]
  IN CASE op = "recordShipment" -> b
       [] op = "recordTransfer" -> [b EXCEPT !.ownerPartyId = party]
       [] op = "recordReceipt" ->
            [b EXCEPT !.status = BatchStatus.RECEIVED, !.ownerPartyId = party]
       [] op = "recordInspection" -> b
       [] op = "recordAssayFinalized" -> [b EXCEPT !.declaredAssay = <<assay, "g/t">>]
       [] op = "recordDispute" -> [b EXCEPT !.status = BatchStatus.DISPUTE]

\* The batch object after the call's assignments to it.
updatedBatch(op, batch, eventId, party, assay) ==
  LET b == [batch EXCEPT !.eventIds = Append(@, eventId)]
  IN CASE op = "recordShipment" -> [b EXCEPT !.status = BatchStatus.IN_TRANSIT]
       [] op = "recordTransfer" -> [b EXCEPT !.ownerPartyId = party]
       [] op = "recordReceipt" ->
            [b EXCEPT !.status = BatchStatus.RECEIVED, !.ownerPartyId = party]
       [] op = "recordInspection" -> b
       [] op = "recordAssayFinalized" -> [b EXCEPT !.declaredAssay = <<assay, "g/t">>]
       [] op = "recordDispute" -> [b EXCEPT !.status = BatchStatus.DISPUTE]

\* A faulty variant of batchMissing: the guard is left out.
batchNeverMissing(ref) == FALSE

\* if (!batch) throw new Error(`Batch ${batchId} not found`)
batchMissing(ref) == ref = NullRef

\* An event-recording call up to its await of anchorEvent, or its rejection.
RecordStart(op, batchId, in) ==
  /\ CanCall
  /\ LET ref == getBatch(batchId)
     IN IF batchMissing(ref)
        THEN /\ lastError' = [batchId |-> batchId, error |-> "NotFound"]
             /\ UNCHANGED <<nextEvent, simulatedTransactions, ops>>
        ELSE IF ref = NullRef
        THEN \* batch.ownerPartyId of null
             /\ lastError' = [batchId |-> batchId, error |-> "TypeError"]
             /\ UNCHANGED <<nextEvent, simulatedTransactions, ops>>
        ELSE /\ CanStart
             /\ LET eventId == "e" \o ToString(nextEvent + 1)
                    event == withHash(recordedEvent(op, eventId, now, batchId, heap[ref], in))
                IN /\ simulatedTransactions' =
                        anchorHashSent(anchorEventId(eventId), event.eventPayloadHash)
                   /\ ops' = ops \cup
                        {[op |-> op, pc |-> "anchorEvent", batch |-> ref,
                          newBatch |-> <<>>, event |-> event,
                          call |-> anchorHashCall(anchorEventId(eventId)),
                          party |-> in.party, assay |-> in.assay]}
             /\ nextEvent' = nextEvent + 1
             /\ lastError' = NoError
  /\ UNCHANGED <<config, disk, docCalls, custody, fp, now, nextBatch, store, simulationMode, provider,
                 verif, nImports, pristine>>

\* An event-recording call from the answer of anchorEvent on.
RecordComplete(p) ==
  /\ p \in ops
  /\ p.op \in RecordOps
  /\ \E anchor \in AnchorAnswers(p.call) :
       LET event == [p.event EXCEPT !.onChainTxHash = anchor.txHash]
           batch == updatedBatch(p.op, heap[p.batch], event.eventId, p.party, p.assay)
       IN /\ heap' = [heap EXCEPT ![p.batch] = batch]
          /\ batches' = MapSet(batches, batch.batchId, p.batch)
          /\ events' = EventsSet(events, event)
          /\ auditLog' = logAction(logAction(auditLog, "UPDATE", "Batch", batch.batchId),
                                   "CREATE", "Event", event.eventId)
          /\ disk' = saveCollection(saveCollection(disk, "batches",
                                                   batchValues(batches', heap')),
                                    "events", events')
          /\ pristine' = pristine \cup {event}
  /\ ops' = ops \ {p}
  /\ UNCHANGED <<config, docCalls, custody, fp, now, nextBatch, nextEvent, documents, anchoring, verif,
                 lastError, nImports>>

\* A faulty variant of verifyAnchor: no try/catch around the provider's call.
verifyAnchorUncaught(txHash) ==
  IF simulationMode
  THEN {[verified |-> \E i \in 1..Len(simulatedTransactions) :
                        simulatedTransactions[i].txHash = txHash,
         error |-> FALSE, threw |-> FALSE, local |-> TRUE]}
  ELSE IF ~provider
  THEN {[verified |-> FALSE, error |-> TRUE, threw |-> TRUE, local |-> TRUE]}
  ELSE {[verified |-> TRUE, error |-> FALSE, threw |-> FALSE, local |-> FALSE],
        [verified |-> FALSE, error |-> FALSE, threw |-> FALSE, local |-> FALSE],
        [verified |-> FALSE, error |-> TRUE, threw |-> TRUE, local |-> FALSE]}

\* verifyAnchor(txHash) as far as its answer goes.  In simulation mode the
\* local records are searched.  Otherwise the provider is asked: it answers a
\* receipt, no receipt or an error, which the catch turns into verified =
\* false; with no provider (after switchNetwork) the call itself fails inside
\* the try.
verifyAnchor(txHash) ==
  IF simulationMode
  THEN {[verified |-> \E i \in 1..Len(simulatedTransactions) :
                        simulatedTransactions[i].txHash = txHash,
         error |-> FALSE, threw |-> FALSE, local |-> TRUE]}
  ELSE IF ~provider
  THEN {[verified |-> FALSE, error |-> TRUE, threw |-> FALSE, local |-> TRUE]}
  ELSE {[verified |-> TRUE, error |-> FALSE, threw |-> FALSE, local |-> FALSE],
        [verified |-> FALSE, error |-> FALSE, threw |-> FALSE, local |-> FALSE],
        [verified |-> FALSE, error |-> TRUE, threw |-> FALSE, local |-> FALSE]}

\* A faulty variant of overallAfter: the flag follows the last event compared.
overallAfterLastEvent(overallValid, hashMatch) == hashMatch

\* if (!hashMatch) verificationResults.overallValid = false
overallAfter(overallValid, hashMatch) == IF ~hashMatch THEN FALSE ELSE overallValid

\* A faulty variant of verifyEvent: an anchor that is not verified clears
\* overallValid as well.
verifyEventAnchorDecides(v, anchorValid) ==
  LET event == v.events[v.idx + 1]
      computedHash == computeEventHash(event)
      hashMatch == computedHash = event.eventPayloadHash
  IN [v EXCEPT
        !.idx = v.idx + 1,
        !.anchorVerifications =
           IF anchorValid = <<>> THEN @
           ELSE Append(@, [eventId |-> event.eventId, txHash |-> event.onChainTxHash,
                           verified |-> anchorValid[1]]),
        !.results = Append(@, [eventId |-> event.eventId, eventType |-> event.eventType,
                               storedHash |-> event.eventPayloadHash,
                               computedHash |-> computedHash, hashMatch |-> hashMatch,
                               anchorValid |-> anchorValid]),
        !.overallValid = IF ~hashMatch \/ anchorValid = <<FALSE>> THEN FALSE ELSE @]

\* One pass of the loop body of verifyBatchIntegrity for the next event of the
\* snapshot; anchorValid is <<>> for null and <<verified>> after a check.
verifyEvent(v, anchorValid) ==
  LET event == v.events[v.idx + 1]
      computedHash == computeEventHash(event)
      hashMatch == computedHash = event.eventPayloadHash
  IN [v EXCEPT
        !.idx = v.idx + 1,
        !.anchorVerifications =
           IF anchorValid = <<>> THEN @
           ELSE Append(@, [eventId |-> event.eventId, txHash |-> event.onChainTxHash,
                           verified |-> anchorValid[1]]),
        !.results = Append(@, [eventId |-> event.eventId, eventType |-> event.eventType,
                               storedHash |-> event.eventPayloadHash,
                               computedHash |-> computedHash, hashMatch |-> hashMatch,
                               anchorValid |-> anchorValid]),
        !.overallValid = overallAfter(@, hashMatch)]

\* A faulty variant of runVerification: every event's anchor is checked, with
\* or without an anchor reference.
runVerificationChecksAll(v) ==
  IF v.idx = Len(v.events) THEN [v EXCEPT !.pc = "done"]
  ELSE [v EXCEPT !.pc = "await"]

\* A faulty variant of runVerification: the event list is read from the store
\* again at every pass of the loop.
RECURSIVE runVerificationRereads(_)
runVerificationRereads(v) ==
  LET w == [v EXCEPT !.events = dbEventsByBatch(v.batchId)]
  IN IF w.idx = Len(w.events) THEN [w EXCEPT !.pc = "done"]
     ELSE IF Falsy(w.events[w.idx + 1].onChainTxHash)
     THEN runVerificationRereads(verifyEvent(w, <<>>))
     ELSE [w EXCEPT !.pc = "await"]

\* The loop from the next event on, up to the next await of verifyAnchor
\* (pc = "await") or to the return (pc = "done").
RECURSIVE runVerification(_)
runVerification(v) ==
  IF v.idx = Len(v.events) THEN [v EXCEPT !.pc = "done"]
  ELSE IF Falsy(v.events[v.idx + 1].onChainTxHash)
  THEN runVerification(verifyEvent(v, <<>>))
  ELSE [v EXCEPT !.pc = "await"]

\* The verification at its next await, with the answer verifyAnchor will give.
Awaiting(v) ==
  IF v.pc = "await"
  THEN {[v EXCEPT !.check = c] : c \in verifyAnchor(v.events[v.idx + 1].onChainTxHash)}
  ELSE {v}

\* verifyBatchIntegrity up to its first await, or to its return.
VerifyStart(batchId) ==
  /\ CanCall
  /\ verif.pc = "idle"
  /\ LET ref == getBatch(batchId)
     IN IF ref = NullRef
        THEN verif' = [IdleVerification EXCEPT !.pc = "done", !.batchId = batchId,
                                               !.error = "Batch not found"]
        ELSE verif' \in Awaiting(runVerification(
               [IdleVerification EXCEPT
                  !.batchId = batchId,
                  !.events = dbEventsByBatch(batchId),
                  !.known = events,
                  !.computedBatchHash = computeBatchHash(heap[ref])]))
  /\ UNCHANGED <<config, disk, docCalls, custody, fp, now, nextBatch, nextEvent, store, anchoring, ops, lastError,
                 nImports, pristine>>

\* verifyBatchIntegrity from an answer of verifyAnchor to the next await, or
\* to its return.
VerifyResume ==
  /\ verif.pc = "await"
  /\ IF verif.check.threw
     THEN verif' = [verif EXCEPT !.pc = "done", !.error = "exception"]
     ELSE verif' \in Awaiting(runVerification(
            verifyEvent([verif EXCEPT !.check = NoCheck], <<verif.check.verified>>)))
  /\ UNCHANGED <<config, disk, docCalls, custody, fp, now, nextBatch, nextEvent, store, anchoring, ops, lastError,
                 nImports, pristine>>

\* database.js getDocumentsByBatch
getDocumentsByBatch(docs, batchId) == SelectSeq(docs, LAMBDA d : d.relatedBatchId = batchId)

\* A faulty variant of _computeVerificationStatus: the anchors are looked at
\* before the documents.
computeVerificationStatusAnchorsFirst(batch, evs, docs) ==
  IF batch.status = BatchStatus.DISPUTE THEN "DISPUTED"
  ELSE IF ~\E i \in 1..Len(evs) : evs[i].eventType = EventType.CREATE THEN "INCOMPLETE"
  ELSE IF \E i \in 1..Len(evs) : Falsy(evs[i].onChainTxHash) THEN "PARTIAL"
  ELSE IF Len(docs) = 0 THEN "INCOMPLETE"
  ELSE "VERIFIED"

\* _computeVerificationStatus(batch, events, documents)
computeVerificationStatus(batch, evs, docs) ==
  IF batch.status = BatchStatus.DISPUTE THEN "DISPUTED"
  ELSE IF ~\E i \in 1..Len(evs) : evs[i].eventType = EventType.CREATE THEN "INCOMPLETE"
  ELSE IF Len(docs) = 0 THEN "INCOMPLETE"
  ELSE IF \E i \in 1..Len(evs) : Falsy(evs[i].onChainTxHash) THEN "PARTIAL"
  ELSE "VERIFIED"

\* What getChainOfCustody(batchId) returns: null for a batch the store does not
\* hold, otherwise the batch, its custodian, the timeline of its events, the
\* number of its documents and the status for display.
chainOfCustody(batchId) ==
  LET ref == getBatch(batchId)
  IN IF ref = NullRef
     THEN [NoCustody EXCEPT !.batchId = batchId]
     ELSE LET batch == heap[ref]
              evs == dbEventsByBatch(batchId)
              docs == getDocumentsByBatch(documents, batchId)
          IN [batchId |-> batchId, found |-> TRUE, status |-> batch.status,
              currentCustodian |-> batch.ownerPartyId,
              timeline |-> [i \in 1..Len(evs) |->
                              [eventId |-> evs[i].eventId, eventType |-> evs[i].eventType,
                               payloadHash |-> evs[i].eventPayloadHash,
                               txHash |-> evs[i].onChainTxHash]],
              documentCount |-> Len(docs),
              verificationStatus |-> computeVerificationStatus(batch, evs, docs)]

\* A faulty variant of GetChainOfCustody: the read is written to the audit
\* log.
GetChainOfCustodyLogged(batchId) ==
  /\ CanCall
  /\ custody' = chainOfCustody(batchId)
  /\ auditLog' = logAction(auditLog, "READ", "Batch", batchId)
  /\ UNCHANGED <<config, disk, docCalls, fp, now, nextBatch, nextEvent, heap, batches, events, documents,
                 anchoring, ops, verif, lastError, nImports, pristine>>

\* getChainOfCustody(batchId): synchronous, reads only.
GetChainOfCustody(batchId) ==
  /\ CanCall
  /\ custody' = chainOfCustody(batchId)
  /\ UNCHANGED <<config, disk, docCalls, fp, now, nextBatch, nextEvent, store, anchoring, ops, verif,
                 lastError, nImports, pristine>>

\* importData(jsonData) -> importFromJSON: every record of the data is saved
\* under its own id, over whatever the store holds under that id.  The data
\* of the model hold one record: a stored event or a stored batch, rewritten.
UnknownBatchId == "b0"
RewrittenEvent(e) ==
  LET quantity == {[e EXCEPT !.quantity = <<x, "kg">>] : x \in ReceivedWeights \ {0}} \ {e}
      other == {[e EXCEPT !.toPartyId = EmptyString], [e EXCEPT !.batchId = UnknownBatchId]} \ {e}
  IN quantity \cup other \cup {withHash(c) : c \in quantity}

RewrittenBatch(b) ==
  {[b EXCEPT !.quantity = <<x, "kg">>] : x \in ReceivedWeights \ {0}}
  \cup {[b EXCEPT !.commodityType = OtherCommodity]}

\* importData on the file-based store: persistent-database.js has no
\* importFromJSON, so the call throws (db.importFromJSON is not a function)
\* and the store stays as it is.
ImportThrows == [batchId |-> Null, error |-> "TypeError"]

ImportEvent(e) ==
  /\ CanCall
  /\ nImports < MaxImports
  /\ IF usePersistent
     THEN /\ lastError' = ImportThrows
          /\ UNCHANGED <<events, auditLog>>
     ELSE /\ events' = EventsSet(events, e)
          /\ auditLog' = logAction(auditLog, "CREATE", "Event", e.eventId)
          /\ lastError' = NoError
  /\ nImports' = nImports + 1
  /\ UNCHANGED <<config, disk, docCalls, custody, fp, now, nextBatch, nextEvent, heap, batches, documents,
                 anchoring, ops, verif, pristine>>

ImportBatch(b) ==
  /\ CanCall
  /\ nImports < MaxImports
  /\ IF usePersistent
     THEN /\ lastError' = ImportThrows
          /\ UNCHANGED <<heap, batches, auditLog>>
     ELSE /\ heap' = Append(heap, b)
          /\ batches' = MapSet(batches, b.batchId, Len(heap) + 1)
          /\ auditLog' = logAction(auditLog, "CREATE", "Batch", b.batchId)
          /\ lastError' = NoError
  /\ nImports' = nImports + 1
  /\ UNCHANGED <<config, disk, docCalls, custody, fp, now, nextBatch, nextEvent, events, documents,
                 anchoring, ops, verif, pristine>>

\* The state after construction: empty stores, no call in flight.
StartedService ==
  /\ now = 0
  /\ nextBatch = 0
  /\ nextEvent = 0
  /\ heap = <<>>
  /\ batches = <<>>
  /\ events = <<>>
  /\ documents = <<>>
  /\ auditLog = <<>>
  /\ simulatedTransactions = <<>>
  /\ ops = {}
  /\ verif = IdleVerification
  /\ lastError = NoError
  /\ nImports = 0
  /\ pristine = {}
  /\ custody = NoCustody
  /\ docCalls = NoDocumentCalls
  /\ disk = NoFiles

Started ==
  /\ StartedService
  /\ fp = NoFingerprinting

\* The service's calls.
Service ==
  \/ \E r \in ReferenceNumbers, o \in OwnerInputs, w \in BatchWeights, d \in DocumentIdInputs :
       CreateBatchStart(r, o, w, d)
  \/ \E p \in ops : CreateBatchAnchored(p)
  \/ \E p \in ops : CreateBatchSave(p)
  \/ \E op \in RecordOps, b \in BatchIdInputs : \E in \in RecordInputs(op) :
       RecordStart(op, b, in)
  \/ \E p \in ops : RecordComplete(p)
  \/ \E b \in BatchIdInputs : VerifyStart(b)
  \/ VerifyResume

\* The anchoring service as constructed: simulation mode, no provider.
Simulated ==
  /\ simulationMode = TRUE
  /\ provider = FALSE

\* A process with no contract address configured: it stays in simulation mode.
Init ==
  /\ usePersistent \in BOOLEAN
  /\ contractAddress = FALSE
  /\ Simulated
  /\ Started

Next ==
  \/ Tick
  \/ Service

Spec == Init /\ [][Next]_vars

\* A server with a contract address and a private key configured, on the
\* file-based store: startServer has called connect(privateKey), which left
\* simulation mode, before the first request is served.
InitLive ==
  /\ usePersistent = TRUE
  /\ contractAddress = TRUE
  /\ simulationMode = FALSE
  /\ provider = TRUE
  /\ Started

NextLive ==
  \/ \E withKey \in BOOLEAN : Connect(withKey)
  \/ SwitchNetwork
  \/ Service

SpecLive == InitLive /\ [][NextLive]_vars

\* The process in simulation mode, with importData: on the in-memory store
\* (USE_PERSISTENT_DB is 'false'), which implements importFromJSON, or on the
\* file-based store, which does not.
InitImport ==
  /\ usePersistent \in BOOLEAN
  /\ contractAddress = FALSE
  /\ Simulated
  /\ Started

NextImport ==
  \/ \E i \in 1..Len(events) : \E e \in RewrittenEvent(events[i]) : ImportEvent(e)
  \/ \E i \in 1..Len(batches) : \E b \in RewrittenBatch(heap[batches[i][2]]) : ImportBatch(b)
  \/ Service

SpecImport == InitImport /\ [][NextImport]_vars

\* Imported data that hold a stored batch with the status Closed, the one
\* status no call of the service assigns.
ClosedBatch(b) == [b EXCEPT !.status = BatchStatus.CLOSED]

\* The process in simulation mode on the in-memory store, where importData
\* can bring in a Closed batch before or between the other calls.
InitClosed ==
  /\ usePersistent = FALSE
  /\ contractAddress = FALSE
  /\ Simulated
  /\ Started

NextClosed ==
  \/ \E i \in 1..Len(batches) : ImportBatch(ClosedBatch(heap[batches[i][2]]))
  \/ Service

SpecClosed == InitClosed /\ [][NextClosed]_vars

\* ------------------------------------------- the hashing service by itself
\* The values a field of a record may hold: null, undefined, a string, NaN, a
\* function, an object that holds itself.
HashScalars == {JNull, JUndef, JStr("p1"), JNaN, JFunc, JCycle}

\* The records handed to sha256: a mapping with a nested mapping, a sequence
\* and a scalar field, and two values that are no mapping.
HashRecord(x) ==
  JObj(<< <<"quantity", JObj(<< <<"weight", JNum(25)>>, <<"unit", JStr("kg")>> >>)>>,
          <<"references", JArr(<<JStr("d1"), JStr("d2")>>)>>,
          <<"toPartyId", x>> >>)
HashInputs == {HashRecord(x) : x \in HashScalars} \cup {JNaN, JFunc}

\* seq with its entries i and i + 1 exchanged.
Swapped(seq, i) == [seq EXCEPT ![i] = seq[i + 1], ![i + 1] = seq[i]]

\* The same record built with two of its keys inserted in the other order.
SwapKeys(i) ==
  /\ fp.input.t = "obj"
  /\ i \in 1..(Len(fp.input.o) - 1)
  /\ fp' = [fp EXCEPT !.input.o = Swapped(@, i)]
  /\ UNCHANGED <<config, disk, docCalls, custody, now, nextBatch, nextEvent, store, anchoring, ops, verif,
                 lastError, nImports, pristine>>

\* The same record with two keys of the mapping under its key k inserted in
\* the other order.
SwapNestedKeys(k) ==
  /\ fp.input.t = "obj"
  /\ k \in 1..Len(fp.input.o)
  /\ fp.input.o[k][2].t = "obj"
  /\ Len(fp.input.o[k][2].o) >= 2
  /\ fp' = [fp EXCEPT !.input.o[k][2].o = Swapped(@, 1)]
  /\ UNCHANGED <<config, disk, docCalls, custody, now, nextBatch, nextEvent, store, anchoring, ops, verif,
                 lastError, nImports, pristine>>

\* Another record: the sequence under key k with two elements exchanged.
SwapElements(k) ==
  /\ fp.input.t = "obj"
  /\ k \in 1..Len(fp.input.o)
  /\ fp.input.o[k][2].t = "arr"
  /\ Len(fp.input.o[k][2].a) >= 2
  /\ fp.input.o[k][2].a[1] # fp.input.o[k][2].a[2]
  /\ fp' = [fp EXCEPT !.input.o[k][2].a = Swapped(@, 1), !.reordered = ~@]
  /\ UNCHANGED <<config, disk, docCalls, custody, now, nextBatch, nextEvent, store, anchoring, ops, verif,
                 lastError, nImports, pristine>>

\* A call sha256(record), with what it returned or threw.
Fingerprint ==
  /\ Len(fp.calls) < MaxCalls
  /\ LET r == fingerprint(fp.input)
     IN fp' = [fp EXCEPT !.calls = Append(@,
                 [of |-> fp.input, reordered |-> fp.reordered, error |-> r.error,
                  canonical |-> r.canonical, digest |-> r.digest])]
  /\ UNCHANGED <<config, disk, docCalls, custody, now, nextBatch, nextEvent, store, anchoring, ops, verif,
                 lastError, nImports, pristine>>

InitHashing ==
  /\ usePersistent = TRUE
  /\ contractAddress = FALSE
  /\ Simulated
  /\ StartedService
  /\ fp \in {[NoFingerprinting EXCEPT !.input = v] : v \in HashInputs}

NextHashing ==
  \/ \E i \in 1..2 : SwapKeys(i)
  \/ \E k \in 1..3 : SwapNestedKeys(k)
  \/ \E k \in 1..3 : SwapElements(k)
  \/ Fingerprint

SpecHashing == InitHashing /\ [][NextHashing]_vars

\* ------------------------------------------------ computeEventHash by itself
\* The values of the optional fields of an event handed to computeEventHash:
\* absent (undefined), null, the empty string, an id; and of its quantity:
\* absent, null, a weight.
OptionalValues == {Undefined, Null, EmptyString, "p1"}
QuantityValues == {AbsentQuantity, <<>>, <<25, "kg">>, <<24, "kg">>}
OptionalFields == {"fromPartyId", "toPartyId", "fromFacilityId", "toFacilityId"}

\* The values a fingerprinted field may be changed to.
FieldValues(f) ==
  CASE f \in OptionalFields -> OptionalValues
    [] f = "quantity" -> QuantityValues
    [] f = "eventId" -> {"e1", "e2"}
    [] f = "eventType" -> {EventType.SHIP, EventType.TRANSFER}
    [] f = "eventTimestamp" -> {0, 1}
    [] f = "batchId" -> {"b1", "b2"}
    [] f = "references" -> {<<>>, <<"d1">>, <<"d1", "d2">>, <<"d2", "d1">>}
FingerprintedFields ==
  OptionalFields \cup {"quantity", "eventId", "eventType", "eventTimestamp", "batchId", "references"}

\* The events handed to computeEventHash first.
HashedEvents ==
  {[createEvent("e1", 0, EventType.SHIP, "b1", "p1", to, fromFacility, Null, 0, <<"d1">>)
      EXCEPT !.quantity = q] :
     to \in OptionalValues, fromFacility \in {Undefined, Null}, q \in QuantityValues}

NoEventHashing == [original |-> Null, input |-> Null, changed |-> Null, calls |-> <<>>]

\* Another event: the one at hand with one fingerprinted field at another
\* value.  One change is made in a behaviour.
ChangeField(f, v) ==
  /\ fp.changed = Null
  /\ v # fp.input[f]
  /\ fp' = [fp EXCEPT !.input = [fp.input EXCEPT ![f] = v], !.changed = f]
  /\ UNCHANGED <<config, disk, docCalls, custody, now, nextBatch, nextEvent, store, anchoring, ops, verif,
                 lastError, nImports, pristine>>

\* A call computeEventHash(event) on the event at hand.
HashEvent ==
  /\ Len(fp.calls) < MaxCalls
  /\ fp' = [fp EXCEPT !.calls = Append(@, [of |-> fp.input, changed |-> fp.changed,
                                            digest |-> computeEventHash(fp.input)])]
  /\ UNCHANGED <<config, disk, docCalls, custody, now, nextBatch, nextEvent, store, anchoring, ops, verif,
                 lastError, nImports, pristine>>

InitEventHash ==
  /\ usePersistent = TRUE
  /\ contractAddress = FALSE
  /\ Simulated
  /\ StartedService
  /\ fp \in {[NoEventHashing EXCEPT !.original = e, !.input = e] : e \in HashedEvents}

NextEventHash ==
  \/ \E f \in FingerprintedFields : \E v \in FieldValues(f) : ChangeField(f, v)
  \/ HashEvent

SpecEventHash == InitEventHash /\ [][NextEventHash]_vars

\* The process in simulation mode on either store, with the read-only calls
\* getChainOfCustody and verifyBatchIntegrity beside the others.
InitReads ==
  /\ usePersistent \in BOOLEAN
  /\ contractAddress = FALSE
  /\ Simulated
  /\ Started

NextReads ==
  \/ \E b \in BatchIdInputs : GetChainOfCustody(b)
  \/ Service

SpecReads == InitReads /\ [][NextReads]_vars

\* The continuation of an await on an anchor the service answered itself
\* (simulation mode): the promise is already resolved, and the event loop
\* runs the continuation.
LocalAnswer ==
  \E p \in ops : p.call.simulated /\ (CreateBatchAnchored(p) \/ CreateBatchSave(p) \/ RecordComplete(p))

\* The server after startServer, with a contract address (connected) or
\* without one (simulation mode).
InitGateway ==
  /\ Started
  /\ usePersistent = TRUE
  /\ contractAddress \in BOOLEAN
  /\ simulationMode = ~contractAddress
  /\ provider = TRUE

\* The calls on the batches createBatchAtMine hands out.
NextGateway ==
  \/ SwitchNetwork
  \/ \E r \in ReferenceNumbers, o \in OwnerInputs, w \in BatchWeights, d \in DocumentIdInputs :
       CreateBatchStart(r, o, w, d)
  \/ \E p \in ops : CreateBatchAnchored(p)
  \/ \E p \in ops : CreateBatchSave(p)
  \/ \E op \in RecordOps, b \in StoredBatchIds : \E in \in RecordInputs(op) :
       RecordStart(op, b, in)
  \/ \E p \in ops : RecordComplete(p)
  \/ \E b \in StoredBatchIds : VerifyStart(b)
  \/ VerifyResume

\* The server with the event loop's fairness; nothing makes the gateway
\* answer.
SpecGateway == InitGateway /\ [][NextGateway]_vars /\ WF_vars(LocalAnswer)

\* -------------------------------------------------- the document registry
MaxDocuments == 1    \* registerDocument calls in one behaviour
MaxRegistered == 2   \* createBatchAtMine calls in one behaviour of the registry

\* documentData.content of a request: Undefined when the request gives none
DocumentContents == {Undefined, EmptyString, "permit-A", "permit-B"}
\* documentData.sha256Hash of a request: Undefined when the request gives none
SuppliedHashes == {Undefined, sha256Text("permit-A")}
DocumentRequests == [content : DocumentContents, sha256Hash : SuppliedHashes]
\* the content handed to verifyDocument
VerifiedContents == {EmptyString, "permit-A", "permit-B"}
DocumentIds == {"d" \o ToString(i) : i \in 1..(MaxDocuments + 1)}
LinkedDocumentIds == {<<>>, <<"d1">>}
RegistryReferences == {"REF-1", "REF-2"}

\* hashDocument(content): a string is hashed as it is, with no encoding
hashDocument(content) == sha256Text(content)

\* createDocument(documentData): the fields it names, a property content is
\* not among them.
createDocument(documentId, createdAt, documentData) ==
  [documentId |-> documentId,
   documentType |-> "Permit",
   fileName |-> "permit.pdf",
   sha256Hash |-> documentData.sha256Hash,
   relatedBatchId |-> Null,
   relatedEventId |-> Null,
   confidentialityLevel |-> "Restricted",
   createdAt |-> createdAt]

\* The request as registerDocument hands it to createDocument: a content
\* given without a hash is replaced by its hash.
hashedRequest(documentData) ==
  IF ~Falsy(documentData.content) /\ Falsy(documentData.sha256Hash)
  THEN [content |-> Undefined, sha256Hash |-> hashDocument(documentData.content)]
  ELSE documentData

\* db.getDocument(documentId): the stored documents of that id (one or none)
getDocument(docs, documentId) == SelectSeq(docs, LAMBDA d : d.documentId = documentId)

\* registerDocument(documentData), db.saveDocument included
RegisterDocument(documentData) ==
  /\ CanCall
  /\ Len(documents) < MaxDocuments
  /\ LET document == createDocument("d" \o ToString(Len(documents) + 1), now,
                                    hashedRequest(documentData))
     IN /\ documents' = Append(documents, document)
        /\ auditLog' = logAction(auditLog, "CREATE", "Document", document.documentId)
  /\ disk' = saveCollection(disk, "documents", documents')
  /\ docCalls' = [docCalls EXCEPT !.registered = Append(@, documentData)]
  /\ UNCHANGED <<config, custody, fp, now, nextBatch, nextEvent, heap, batches, events,
                 anchoring, ops, verif, lastError, nImports, pristine>>

\* verifyDocumentHash(content, storedHash)
verifyDocumentHash(content, storedHash) ==
  [isValid |-> hashDocument(content) = storedHash,
   computedHash |-> hashDocument(content),
   storedHash |-> storedHash]

\* What verifyDocument(documentId, content) returns.
verifyDocument(docs, documentId, content) ==
  IF getDocument(docs, documentId) = <<>>
  THEN [valid |-> FALSE, error |-> "Document not found", documentId |-> documentId,
        computedHash |-> Null, storedHash |-> Null]
  ELSE LET doc == getDocument(docs, documentId)[1]
           result == verifyDocumentHash(content, doc.sha256Hash)
       IN [valid |-> result.isValid, error |-> Null, documentId |-> documentId,
           computedHash |-> result.computedHash, storedHash |-> result.storedHash]

VerifyDocument(documentId, content) ==
  /\ CanCall
  /\ docCalls' = [docCalls EXCEPT !.verified =
                    <<[documentId |-> documentId, content |-> content,
                       result |-> verifyDocument(documents, documentId, content)]>>]
  /\ UNCHANGED <<config, disk, custody, fp, now, nextBatch, nextEvent, store, anchoring, ops, verif,
                 lastError, nImports, pristine>>

\* A process in simulation mode that registers a document, verifies contents
\* against it and creates batches, with or without the document in their
\* list.
InitDocuments ==
  /\ usePersistent \in BOOLEAN
  /\ contractAddress = FALSE
  /\ Simulated
  /\ Started

NextDocuments ==
  \/ \E documentData \in DocumentRequests : RegisterDocument(documentData)
  \/ \E d \in DocumentIds, content \in VerifiedContents : VerifyDocument(d, content)
  \/ \E r \in RegistryReferences, o \in OwnerInputs, w \in BatchWeights,
        d \in LinkedDocumentIds :
       /\ nextBatch < MaxRegistered
       /\ createBatchAtMine(r, o, w, d)
  \/ \E p \in ops : CreateBatchAnchored(p)
  \/ \E p \in ops : CreateBatchSave(p)

SpecDocuments == InitDocuments /\ [][NextDocuments]_vars

\* --------------------------------------- recording with the clock running
\* A server connected to a contract, on either store: the anchor calls of
\* overlapping requests return in any order, and the clock moves on between
\* requests.
InitClock ==
  /\ usePersistent \in BOOLEAN
  /\ contractAddress = TRUE
  /\ simulationMode = FALSE
  /\ provider = TRUE
  /\ Started

\* The calls that create a batch and record events on it.
Recording ==
  \/ \E r \in ReferenceNumbers, o \in OwnerInputs, w \in BatchWeights, d \in DocumentIdInputs :
       CreateBatchStart(r, o, w, d)
  \/ \E p \in ops : CreateBatchAnchored(p)
  \/ \E p \in ops : CreateBatchSave(p)
  \/ \E op \in RecordOps, b \in BatchIdInputs : \E in \in RecordInputs(op) :
       RecordStart(op, b, in)
  \/ \E p \in ops : RecordComplete(p)

NextClock ==
  \/ Tick
  \/ Recording

SpecClock == InitClock /\ [][NextClock]_vars

\* ------------------------------------------------- the status for display
\* A server connected to a contract, on either store: documents are
\* registered and linked, anchor calls fail or succeed, disputes are raised,
\* data are imported, and the chain of custody is read.
CustodyDocument == [content |-> "permit-A", sha256Hash |-> Undefined]
CustodyOps == {"recordShipment", "recordDispute"}

NextCustody ==
  \/ RegisterDocument(CustodyDocument)
  \/ \E r \in ReferenceNumbers, o \in OwnerInputs, w \in BatchWeights,
        d \in LinkedDocumentIds :
       CreateBatchStart(r, o, w, d)
  \/ \E p \in ops : CreateBatchAnchored(p)
  \/ \E p \in ops : CreateBatchSave(p)
  \/ \E op \in CustodyOps, b \in StoredBatchIds : \E in \in RecordInputs(op) :
       RecordStart(op, b, in)
  \/ \E p \in ops : RecordComplete(p)
  \/ \E i \in 1..Len(events) : ImportEvent([events[i] EXCEPT !.batchId = UnknownBatchId])
  \/ \E b \in StoredBatchIds : GetChainOfCustody(b)

SpecCustody == InitClock /\ [][NextCustody]_vars

\* ------------------------------------- the displayed status and the check
\* The process in simulation mode on the in-memory store: a batch is created
\* with a linked document, data are imported over a stored event, the chain
\* of custody is read and the batch is verified.
NextDisplay ==
  \/ RegisterDocument(CustodyDocument)
  \/ \E r \in ReferenceNumbers, o \in OwnerInputs, w \in BatchWeights,
        d \in LinkedDocumentIds :
       CreateBatchStart(r, o, w, d)
  \/ \E p \in ops : CreateBatchAnchored(p)
  \/ \E p \in ops : CreateBatchSave(p)
  \/ \E i \in 1..Len(events) : \E e \in RewrittenEvent(events[i]) : ImportEvent(e)
  \/ \E b \in StoredBatchIds : GetChainOfCustody(b)
  \/ \E b \in StoredBatchIds : VerifyStart(b)
  \/ VerifyResume

SpecDisplay == InitClosed /\ [][NextDisplay]_vars

\* ------------------------------------------------ staying in simulation
\* A process with no contract address configured, where connect and
\* switchNetwork are called: connect finds no contract and keeps the service
\* in simulation mode.
SpecSimulated == Init /\ [][NextLive]_vars

\* ------------------------------------------- the file-based store's files
MaxRestarts == 1     \* restarts of the process in one behaviour

\* A restart of the process on the file-based store, between calls: the
\* constructor's loadAll builds the maps from the files (JSON.parse gives new
\* objects; a property that held undefined was not written and reads as
\* undefined again), the audit log is read back from its file, which every
\* logAction rewrites, and the anchoring service is constructed anew.
Restart ==
  /\ usePersistent
  /\ ops = {}
  /\ verif.pc = "idle"
  /\ disk.loads < MaxRestarts
  /\ heap' = disk.batches
  /\ batches' = [i \in 1..Len(disk.batches) |-> <<disk.batches[i].batchId, i>>]
  /\ events' = disk.events
  /\ documents' = disk.documents
  /\ disk' = [disk EXCEPT !.loads = @ + 1]
  /\ simulationMode' = TRUE
  /\ provider' = FALSE
  /\ simulatedTransactions' = <<>>
  /\ UNCHANGED <<config, docCalls, custody, fp, now, nextBatch, nextEvent, auditLog, ops, verif,
                 lastError, nImports, pristine>>

\* The process on the file-based store in simulation mode: a document is
\* registered, batches are created with or without it, events are recorded,
\* and the process is restarted.
InitRestart ==
  /\ usePersistent = TRUE
  /\ contractAddress = FALSE
  /\ Simulated
  /\ Started

NextRestart ==
  \/ RegisterDocument(CustodyDocument)
  \/ \E r \in ReferenceNumbers, o \in OwnerInputs, w \in BatchWeights,
        d \in LinkedDocumentIds :
       CreateBatchStart(r, o, w, d)
  \/ \E p \in ops : CreateBatchAnchored(p)
  \/ \E p \in ops : CreateBatchSave(p)
  \/ \E op \in CustodyOps, b \in StoredBatchIds : \E in \in RecordInputs(op) :
       RecordStart(op, b, in)
  \/ \E p \in ops : RecordComplete(p)
  \/ Restart

SpecRestart == InitRestart /\ [][NextRestart]_vars

\* ------------------------------------------------------------ properties
\* The verification has returned a result for a stored batch.
Returned == verif.pc = "done" /\ verif.error = Null

\* The batch's events the service had saved when the verification read the
\* event list, each as the service saved it.
KnownIds == {verif.known[i].eventId : i \in 1..Len(verif.known)}
AppendedAtRead == {e \in pristine : e.batchId = verif.batchId /\ e.eventId \in KnownIds}

ResultOf(eventId) ==
  verif.results[CHOOSE i \in 1..Len(verif.results) : verif.results[i].eventId = eventId]

\* C1: after successful create and record calls and no out-of-band change,
\* verifyBatchIntegrity returns overallValid = true, one per-event result for
\* each appended event and no other, and hashMatch = true in every result.
C1_LegitimateHistoryVerifies ==
  (Returned /\ nImports = 0) =>
    /\ verif.overallValid
    /\ Len(verif.results) = Cardinality(AppendedAtRead)
    /\ \A e \in AppendedAtRead :
         Cardinality({i \in 1..Len(verif.results) : verif.results[i].eventId = e.eventId}) = 1
    /\ \A i \in 1..Len(verif.results) : verif.results[i].hashMatch

\* All six event-recording calls cannot fit the bound; a run over a Create, a
\* Ship and a Receive event that overlapped with nothing is the case.
C1_Witness ==
  /\ Returned
  /\ nImports = 0
  /\ verif.overallValid
  /\ Len(verif.results) = MaxEvents
  /\ {verif.results[i].eventType : i \in 1..Len(verif.results)} =
       {EventType.CREATE, EventType.SHIP, EventType.RECEIVE}

\* The fingerprinted fields of an event.
Immutable(e) ==
  <<e.eventId, e.eventType, e.eventTimestamp, e.batchId, e.fromPartyId, e.toPartyId,
    e.fromFacilityId, e.toFacilityId, e.quantity, e.references>>

\* The stored record, when the verification read the event list, of an event
\* the service saved.
AsStoredAtRead(e) ==
  verif.known[CHOOSE i \in 1..Len(verif.known) : verif.known[i].eventId = e.eventId]

ChangedAtRead == {e \in AppendedAtRead : Immutable(AsStoredAtRead(e)) # Immutable(e)}

\* C2: when exactly one persisted event of the batch has an immutable field
\* changed after creation and every stored eventPayloadHash is as it was,
\* verifyBatchIntegrity reports hashMatch = false for that event, hashMatch =
\* true for every other event of the batch, and overallValid = false.
C2_OneChangedEventIsReported ==
  ( /\ Returned
    /\ Cardinality(ChangedAtRead) = 1
    /\ \A e \in AppendedAtRead : AsStoredAtRead(e).eventPayloadHash = e.eventPayloadHash )
  =>
    /\ ~verif.overallValid
    /\ \A e \in AppendedAtRead :
         \E i \in 1..Len(verif.results) :
           /\ verif.results[i].eventId = e.eventId
           /\ verif.results[i].hashMatch = (e \notin ChangedAtRead)

\* The event types the state machine allows in a status; it names no status
\* for InspectTest and AssayFinalized events.
ValidFor(status, eventType) ==
  CASE eventType = EventType.SHIP -> status = BatchStatus.CREATED
    [] eventType \in {EventType.TRANSFER, EventType.RECEIVE} -> status = BatchStatus.IN_TRANSIT
    [] eventType = EventType.DISPUTE -> status # BatchStatus.CLOSED
    [] OTHER -> TRUE

\* C3: an event-recording call whose event type is not legal for the batch's
\* current status is rejected before anything is written: no such call gets as
\* far as fingerprinting its event and submitting the anchor, recordReceipt on
\* a batch in status Created in particular.
C3_IllegalEventIsRejected ==
  [][\A p \in ops' \ ops :
       p.op \in RecordOps => ValidFor(heap[p.batch].status, p.event.eventType)]_vars

DefinedTransitions ==
  {<<BatchStatus.CREATED, EventType.SHIP, BatchStatus.IN_TRANSIT>>,
   <<BatchStatus.IN_TRANSIT, EventType.RECEIVE, BatchStatus.RECEIVED>>}
  \cup {<<st, EventType.DISPUTE, BatchStatus.DISPUTE>> :
          st \in {BatchStatus.CREATED, BatchStatus.IN_TRANSIT, BatchStatus.RECEIVED}}

\* C4: a batch's status changes only along the defined transitions: Created
\* to InTransit by a Ship event, InTransit to Received by a Receive event, a
\* non-terminal status to Dispute by a Dispute event.
C4_StatusFollowsTransitions ==
  [][\A r \in 1..Len(heap) :
       heap'[r].status # heap[r].status =>
         \E p \in ops \ ops' :
           /\ p.batch = r
           /\ <<heap[r].status, p.event.eventType, heap'[r].status>> \in DefinedTransitions]_vars

AnchorEntries(eventId) ==
  {i \in 1..Len(verif.anchorVerifications) : verif.anchorVerifications[i].eventId = eventId}

\* C5: when every per-event result has hashMatch = true, verifyBatchIntegrity
\* returns overallValid = true whatever verifyAnchor answered, and the anchor
\* outcome is reported per event: one anchor entry with the answer for an event
\* with an anchor reference, none for an event without.
C5_AnchorNeverDecides ==
  (Returned /\ \A i \in 1..Len(verif.results) : verif.results[i].hashMatch) =>
    /\ verif.overallValid
    /\ \A i \in 1..Len(verif.results) :
         LET r == verif.results[i]
         IN IF r.anchorValid = <<>>
            THEN AnchorEntries(r.eventId) = {}
            ELSE /\ Cardinality(AnchorEntries(r.eventId)) = 1
                 /\ \A j \in AnchorEntries(r.eventId) :
                      verif.anchorVerifications[j].verified = r.anchorValid[1]

\* A valid result over an event with no anchor reference, an event whose
\* anchor was not verified and an event whose anchor was.
C5_Witness ==
  /\ Returned
  /\ verif.overallValid
  /\ \E i, j, k \in 1..Len(verif.results) :
       /\ verif.results[i].anchorValid = <<>>
       /\ verif.results[j].anchorValid = <<FALSE>>
       /\ verif.results[k].anchorValid = <<TRUE>>

\* The record the anchoring service keeps of the submission that was answered
\* with txHash.
Submitted(txHash) ==
  {simulatedTransactions[j] : j \in {k \in 1..Len(simulatedTransactions) :
                                       simulatedTransactions[k].txHash = txHash}}

\* C6: an event's anchor is reported verified only if the fingerprint that was
\* submitted under the event's anchor reference equals the event's stored
\* fingerprint.
C6_VerifiedAnchorMatchesFingerprint ==
  Returned =>
    \A i \in 1..Len(verif.anchorVerifications) :
      LET a == verif.anchorVerifications[i]
      IN a.verified =>
           \A t \in Submitted(a.txHash) : t.hash = ResultOf(a.eventId).storedHash

\* C7: batchHashValid is false whenever the batch fingerprint recomputed from
\* the batch's current fields differs from the one anchored at creation.
C7_BatchFingerprintIsCompared ==
  Returned =>
    \A j \in 1..Len(simulatedTransactions) :
      ( /\ simulatedTransactions[j].id = anchorBatchId(verif.batchId)
        /\ simulatedTransactions[j].hash # verif.computedBatchHash )
      => ~verif.batchHashValid

\* C8: the overallValid returned equals batchHashValid and the hashMatch of
\* every per-event result.
C8_OverallValidIsConjunction ==
  Returned =>
    verif.overallValid =
      (verif.batchHashValid /\ \A i \in 1..Len(verif.results) : verif.results[i].hashMatch)

\* A result with a mismatching event followed by a matching one.
C8_Witness ==
  /\ Returned
  /\ ~verif.overallValid
  /\ \E i, j \in 1..Len(verif.results) :
       i < j /\ ~verif.results[i].hashMatch /\ verif.results[j].hashMatch

C10_UnknownBatchIsRejected ==
  [][/\ \A b \in BatchIdInputs \ StoredBatchIds :
          (lastError' # lastError /\ lastError'.batchId = b) =>
            /\ lastError'.error = "NotFound"
            /\ UNCHANGED <<store, simulatedTransactions, ops, nextEvent, pristine>>
     /\ \A p \in ops' \ ops :
          p.op \in RecordOps => p.event.batchId \in StoredBatchIds]_vars

\* A call rejected for a batch id that is not stored while a batch and its
\* events are.
C10_Witness ==
  /\ lastError.error = "NotFound"
  /\ lastError.batchId \notin StoredBatchIds
  /\ Len(batches) > 0
  /\ Len(events) >= 2

\* The event stored under eventId in a value of db.events.
EventIn(evs, eventId) == evs[CHOOSE i \in 1..Len(evs) : evs[i].eventId = eventId]
IsStoredIn(evs, eventId) == \E i \in 1..Len(evs) : evs[i].eventId = eventId

\* The completing step of call p has stored p's event, of type eventType, with
\* its fingerprint.
StoresEvent(p, eventType) ==
  /\ ~IsStoredIn(events, p.event.eventId)
  /\ IsStoredIn(events', p.event.eventId)
  /\ LET e == EventIn(events', p.event.eventId)
     IN /\ e.eventType = eventType
        /\ e.eventPayloadHash # Null
        /\ e.eventPayloadHash = computeEventHash(e)

\* C11: the reference scenario, step by step: createBatchAtMine stores a batch
\* in status Created with one Create event and its fingerprint; recordShipment
\* stores a Ship event and the status becomes InTransit; recordReceipt stores a
\* Receive event and the status becomes Received; verifyBatchIntegrity over
\* these three events returns overallValid = true, 3 results, all hashMatch.
C11_ReferenceScenario ==
  /\ [][\A p \in ops \ ops' :
          /\ (p.op = "createBatchAtMine" /\ p.pc = "anchorEvent") =>
               /\ StoresEvent(p, EventType.CREATE)
               /\ p.event.batchId \notin StoredBatchIds
               /\ LET b == heap'[Len(heap')]
                  IN /\ batches' = Append(batches, <<p.event.batchId, Len(heap')>>)
                     /\ b.batchId = p.event.batchId
                     /\ b.status = BatchStatus.CREATED
                     /\ b.eventIds = <<p.event.eventId>>
          /\ p.op = "recordShipment" =>
               /\ StoresEvent(p, EventType.SHIP)
               /\ heap'[p.batch].status = BatchStatus.IN_TRANSIT
          /\ p.op = "recordReceipt" =>
               /\ StoresEvent(p, EventType.RECEIVE)
               /\ heap'[p.batch].status = BatchStatus.RECEIVED]_vars
  /\ []((Returned /\ nImports = 0
         /\ [i \in 1..Len(verif.events) |-> verif.events[i].eventType]
              = <<EventType.CREATE, EventType.SHIP, EventType.RECEIVE>>) =>
          /\ verif.overallValid
          /\ Len(verif.results) = 3
          /\ \A i \in 1..3 : verif.results[i].hashMatch)

\* The scenario run to its end, one call after the other: the batch is
\* Received and the verification has returned over Create, Ship, Receive.
C11_Witness ==
  /\ Returned
  /\ ops = {}
  /\ [i \in 1..Len(verif.results) |-> verif.results[i].eventType]
       = <<EventType.CREATE, EventType.SHIP, EventType.RECEIVE>>
  /\ heap[getBatch(verif.batchId)].status = BatchStatus.RECEIVED
  /\ heap[getBatch(verif.batchId)].eventIds = <<"e1", "e2", "e3">>
  /\ verif.overallValid

\* The from-party the call p would record had it read the batch as object b.
FromPartyReading(p, b) ==
  recordedEvent(p.op, p.event.eventId, p.event.eventTimestamp, p.event.batchId, b,
                [party |-> p.party, weight |-> 0, assay |-> p.assay]).fromPartyId

AfterCall(p, b) == updatedBatch(p.op, b, p.event.eventId, p.party, p.assay)

\* C12: when two event-recording calls on one batch overlap, both having read
\* the batch as it is before either anchor call returns, the batch's status and
\* owner and the from-party of the two events are those of one of the two
\* one-after-the-other executions.  Stated at the step the first of the two, p,
\* completes while the other, q, still waits.
C12_OverlappingAppendsAreSerialized ==
  [][\A p \in ops \ ops' : \A q \in ops \cap ops' :
       ( /\ p.op \in RecordOps /\ q.op \in RecordOps
         /\ p.batch = q.batch
         /\ p.event.fromPartyId = FromPartyReading(p, heap[p.batch])
         /\ q.event.fromPartyId = FromPartyReading(q, heap[p.batch]) )
       =>
         LET b == heap[p.batch]
             pq == AfterCall(q, heap'[p.batch])
             qp == AfterCall(p, AfterCall(q, b))
         IN \/ q.event.fromPartyId = FromPartyReading(q, heap'[p.batch])
            \/ /\ p.event.fromPartyId = FromPartyReading(p, AfterCall(q, b))
               /\ <<qp.status, qp.ownerPartyId>> = <<pq.status, pq.ownerPartyId>>]_vars

\* C13: while the anchor submission for an event is in flight, the event is
\* already stored with its fingerprint and returned by getEventsByBatch, and
\* the batch's status transition is applied.
C13_StoredBeforeAnchored ==
  \A p \in ops :
    p.pc = "anchorEvent" =>
      /\ IsStoredIn(events, p.event.eventId)
      /\ \E i \in 1..Len(dbEventsByBatch(p.event.batchId)) :
           dbEventsByBatch(p.event.batchId)[i].eventId = p.event.eventId
      /\ p.op \in RecordOps =>
           /\ \E i \in 1..Len(heap[p.batch].eventIds) :
                heap[p.batch].eventIds[i] = p.event.eventId
           /\ heap[p.batch].status = AfterCall(p, heap[p.batch]).status

\* C14: every event-recording call and every verifyBatchIntegrity call
\* eventually completes, also when the gateway never answers: the calls in
\* flight all return, and a verification that waits for the gateway returns.
C14_CallsComplete ==
  /\ (ops # {}) ~> (ops = {})
  /\ (verif.pc = "await" /\ ~verif.check.local) ~> (verif.pc = "done")

\* C15: when the anchor submission for a new event is not accepted, the
\* event-recording call still succeeds: the event is stored with its
\* fingerprint and without an anchor reference, and the batch's status and
\* owner update is applied; a later verifyBatchIntegrity reports an event
\* without an anchor reference with hashMatch = true, anchorValid = null and
\* no anchor-verification entry.
C15_UnanchoredEventIsKept ==
  /\ [][\A p \in ops \ ops' :
          p.op \in RecordOps =>
            /\ ~IsStoredIn(events, p.event.eventId)
            /\ IsStoredIn(events', p.event.eventId)
            /\ LET e == EventIn(events', p.event.eventId)
                   b == AfterCall(p, heap[p.batch])
               IN /\ e.eventPayloadHash = p.event.eventPayloadHash
                  /\ e.eventPayloadHash = computeEventHash(e)
                  /\ e.onChainTxHash \in {p.call.txHash, Undefined}
                  /\ heap'[p.batch].status = b.status
                  /\ heap'[p.batch].ownerPartyId = b.ownerPartyId
                  /\ heap'[p.batch].eventIds = Append(heap[p.batch].eventIds, e.eventId)
                  /\ lastError' = lastError]_vars
  /\ [](Returned =>
          \A i \in 1..Len(verif.events) :
            LET e == verif.events[i]
            IN Falsy(e.onChainTxHash) =>
                 /\ Cardinality({j \in 1..Len(verif.results) :
                                   verif.results[j].eventId = e.eventId}) = 1
                 /\ ResultOf(e.eventId).hashMatch
                 /\ ResultOf(e.eventId).anchorValid = <<>>
                 /\ AnchorEntries(e.eventId) = {})

\* A connected server whose gateway refused the anchor of a shipment: the
\* Ship event is stored without an anchor reference, the batch is InTransit,
\* and the verification has reported the event.
C15_Witness ==
  /\ Returned
  /\ ~simulationMode
  /\ \E i \in 1..Len(verif.events) :
       LET e == verif.events[i]
       IN /\ e.eventType = EventType.SHIP
          /\ e.onChainTxHash = Undefined
          /\ IsStoredIn(events, e.eventId)
          /\ heap[getBatch(verif.batchId)].status = BatchStatus.IN_TRANSIT
          /\ ResultOf(e.eventId).hashMatch
          /\ ResultOf(e.eventId).anchorValid = <<>>
          /\ AnchorEntries(e.eventId) = {}

\* The batch's stored events at the moment the verification read the event
\* list, in the order the store answers them.
SnapshotAtRead ==
  IF usePersistent THEN getEventsForBatch(verif.known, verif.batchId)
  ELSE getEventsByBatch(verif.known, verif.batchId)

\* The result verifyBatchIntegrity reports for event e.
ResultFor(e) ==
  LET r == ResultOf(e.eventId)
  IN [eventId |-> r.eventId, eventType |-> e.eventType,
      storedHash |-> e.eventPayloadHash, computedHash |-> computeEventHash(e),
      hashMatch |-> computeEventHash(e) = e.eventPayloadHash,
      anchorValid |-> r.anchorValid]

\* C16: a verifyBatchIntegrity run that overlaps with event appends on the
\* batch reports the batch as it was when the run read the event list: the
\* results are, in order, those of the events stored at that moment, an event
\* stored later is not among them, and a result once reported stays as it is.
C16_VerificationReadsOneSnapshot ==
  /\ []((verif.pc \in {"await", "done"} /\ verif.error = Null) =>
          /\ Len(verif.results) <= Len(SnapshotAtRead)
          /\ Returned => Len(verif.results) = Len(SnapshotAtRead)
          /\ \A i \in 1..Len(verif.results) :
               /\ verif.results[i].eventId = SnapshotAtRead[i].eventId
               /\ verif.results[i] = ResultFor(SnapshotAtRead[i]))
  /\ [][verif.pc = "await" =>
          /\ Len(verif'.results) >= Len(verif.results)
          /\ SubSeq(verif'.results, 1, Len(verif.results)) = verif.results]_vars

\* A run that has reported an event and awaits an anchor check while an
\* event-recording call on the same batch has stored a new event.
C16_Witness ==
  /\ verif.pc = "await"
  /\ Len(verif.results) >= 1
  /\ \E i \in 1..Len(events) :
       /\ events[i].batchId = verif.batchId
       /\ events[i].eventId \notin KnownIds

\* C17: verifyBatchIntegrity and getChainOfCustody change nothing: at every
\* step of either call, for a stored batch id or not, the stored batches,
\* events and documents, the audit log and the anchoring service's recorded
\* transactions are after the step what they were before it.
C17_ReadsChangeNothing ==
  [][(verif' # verif \/ custody' # custody) =>
       /\ heap' = heap
       /\ batches' = batches
       /\ events' = events
       /\ documents' = documents
       /\ auditLog' = auditLog
       /\ simulatedTransactions' = simulatedTransactions]_vars

\* Both calls have returned for a stored batch with recorded events, the
\* verification after anchor checks.
C17_Witness ==
  /\ Returned
  /\ Len(verif.anchorVerifications) >= 2
  /\ custody.found
  /\ Len(custody.timeline) >= 2
  /\ custody.batchId = verif.batchId

\* The timestamps of the events a batch lists, in the order of its list.
TimestampsOf(batch) ==
  [i \in 1..Len(batch.eventIds) |-> EventIn(events, batch.eventIds[i]).eventTimestamp]

\* C18: every stored batch's event list only grows, no entry removed or
\* reordered, and lists the batch's events in ascending order of event
\* timestamp, also when event-recording calls on the batch overlap and their
\* anchor calls return in another order than the events were created.
C18_EventListAppendOnlyAndOrdered ==
  /\ [](\A k \in 1..Len(batches) :
          LET ts == TimestampsOf(heap[batches[k][2]])
          IN \A i, j \in 1..Len(ts) : i < j => ts[i] <= ts[j])
  /\ [][\A k \in 1..Len(batches) :
          LET before == heap[batches[k][2]].eventIds
              after == heap'[getBatch(batches[k][1])'].eventIds
          IN /\ Len(after) >= Len(before)
             /\ SubSeq(after, 1, Len(before)) = before]_vars

\* C19: once an event is stored, no later step of the service (event
\* recording, batch creation, verification, data import) changes one of its
\* fingerprinted fields or its stored fingerprint; only an anchor reference
\* may be attached to it.
C19_StoredEventIsImmutable ==
  [][\A i \in 1..Len(events) :
       LET e == events[i]
       IN /\ IsStoredIn(events', e.eventId)
          /\ LET f == EventIn(events', e.eventId)
             IN \/ f = e
                \/ /\ Falsy(e.onChainTxHash)
                   /\ f = [e EXCEPT !.onChainTxHash = f.onChainTxHash]]_vars

\* C20: in every reachable state, after batch creation, event recording and
\* data import in any order, every stored event's batchId is the id of exactly
\* one stored batch.
C20_EventBelongsToOneStoredBatch ==
  \A i \in 1..Len(events) :
    Cardinality({k \in 1..Len(batches) : batches[k][1] = events[i].batchId}) = 1

\* The status the store holds for the batch of id batchId.
StatusOf(batchId) == heap[getBatch(batchId)].status

\* C21: once a batch has status Closed its status never changes again: every
\* event-recording call on a Closed batch (ship, transfer, receive, inspect,
\* assay, dispute) leaves the status Closed.
C21_ClosedIsTerminal ==
  [][\A k \in 1..Len(batches) :
       StatusOf(batches[k][1]) = BatchStatus.CLOSED =>
         StatusOf(batches[k][1])' = BatchStatus.CLOSED]_vars

\* The step stores a new event of type eventType for the batch of id batchId.
StoresEventOfType(batchId, eventType) ==
  \E i \in 1..Len(events') :
    /\ events'[i].batchId = batchId
    /\ events'[i].eventType = eventType
    /\ ~IsStoredIn(events, events'[i].eventId)

\* C22: a batch leaves the status Dispute only by the recording of a Resolve
\* event: a step that takes a batch out of Dispute stores a Resolve event of
\* that batch.
C22_OnlyResolveLeavesDispute ==
  [][\A k \in 1..Len(batches) :
       ( /\ StatusOf(batches[k][1]) = BatchStatus.DISPUTE
         /\ StatusOf(batches[k][1])' # BatchStatus.DISPUTE )
       => StoresEventOfType(batches[k][1], EventType.RESOLVE)]_vars

\* C23: recordTransfer on a batch in status InTransit leaves the status
\* InTransit, sets the batch owner to the transfer's to-party, and appends
\* exactly one Transfer event whose from-party is the owner the batch had
\* before the call.  Stated at the two steps of the call: the event is built
\* from the batch as the call finds it, and the return stores that one event
\* and updates the batch.
C23_TransferKeepsInTransit ==
  /\ [][\A p \in ops' \ ops :
          p.op = "recordTransfer" =>
            /\ p.event.eventType = EventType.TRANSFER
            /\ p.event.fromPartyId = heap[p.batch].ownerPartyId
            /\ p.event.toPartyId = p.party
            /\ p.event.batchId = heap[p.batch].batchId]_vars
  /\ [][\A p \in ops \ ops' :
          (p.op = "recordTransfer" /\ heap[p.batch].status = BatchStatus.IN_TRANSIT) =>
            /\ heap'[p.batch].status = BatchStatus.IN_TRANSIT
            /\ heap'[p.batch].ownerPartyId = p.event.toPartyId
            /\ heap'[p.batch].eventIds = Append(heap[p.batch].eventIds, p.event.eventId)
            /\ Len(events') = Len(events) + 1
            /\ SubSeq(events', 1, Len(events)) = events
            /\ LET e == events'[Len(events')]
               IN [e EXCEPT !.onChainTxHash = Null] = [p.event EXCEPT !.onChainTxHash = Null]]_vars

\* A shipped batch of owner p1 after a transfer to p2 has returned: still
\* InTransit, owned by p2, with the Transfer event from p1 to p2 last.
C23_Witness ==
  /\ ops = {}
  /\ Len(events) = 3
  /\ events[2].eventType = EventType.SHIP
  /\ events[3].eventType = EventType.TRANSFER
  /\ events[3].fromPartyId = "p1"
  /\ events[3].toPartyId = "p2"
  /\ StatusOf(events[3].batchId) = BatchStatus.IN_TRANSIT
  /\ heap[getBatch(events[3].batchId)].ownerPartyId = "p2"
  /\ heap[getBatch(events[3].batchId)].eventIds = <<"e1", "e2", "e3">>

\* C24: fingerprinting is deterministic and independent of key insertion
\* order: two calls on one record, or on the record and on the same record
\* with the keys of any of its mappings, nested ones included, inserted in
\* another order, give the same canonical string and the same digest (or fail
\* the same way), while two records that differ in the order of the elements
\* of a sequence get different canonical strings and digests.
C24_KeyOrderDoesNotMatter ==
  \A i, j \in 1..Len(fp.calls) :
    LET c == fp.calls[i]
        d == fp.calls[j]
    IN IF c.reordered = d.reordered
       THEN <<c.error, c.canonical, c.digest>> = <<d.error, d.canonical, d.digest>>
       ELSE (c.error = Null /\ d.error = Null) =>
              (c.canonical # d.canonical /\ c.digest # d.digest)

\* Two calls that returned a digest, the second on the record with the keys
\* of the outer mapping and of the nested mapping in another order and the
\* sequence as it was.
C24_Witness ==
  /\ Len(fp.calls) = 2
  /\ fp.calls[1].error = Null
  /\ fp.calls[1].of.t = "obj"
  /\ fp.calls[1].reordered = fp.calls[2].reordered
  /\ fp.calls[1].of.o[1][1] # fp.calls[2].of.o[1][1]
  /\ \E k, l \in 1..3 :
       /\ fp.calls[1].of.o[k][1] = "quantity"
       /\ fp.calls[2].of.o[l][1] = "quantity"
       /\ fp.calls[1].of.o[k][2].o[1][1] # fp.calls[2].of.o[l][2].o[1][1]

\* The value a field holds once an absent field is read as null.
Supplied(f, x) ==
  IF f \in OptionalFields THEN (IF x = Undefined THEN Null ELSE x)
  ELSE IF f = "quantity" THEN (IF x = AbsentQuantity THEN <<>> ELSE x)
  ELSE x

\* The two calls were made on the event before and after the change of a
\* field.
AcrossChange(c, d) == c.changed = Null /\ d.changed # Null

\* C25: two event payloads that differ in the value of one fingerprinted
\* field (an absent field counting as null) have different fingerprints.
C25_ChangedFieldChangesFingerprint ==
  \A i, j \in 1..Len(fp.calls) :
    LET c == fp.calls[i]
        d == fp.calls[j]
    IN (AcrossChange(c, d) /\ Supplied(d.changed, c.of[d.changed]) # Supplied(d.changed, d.of[d.changed]))
         => c.digest # d.digest

\* The field holds no value: it is absent or null.
Unsupplied(f, x) == Supplied(f, x) = IF f = "quantity" THEN <<>> ELSE Null

\* C27: computeEventHash treats an absent optional field (fromPartyId,
\* toPartyId, fromFacilityId, toFacilityId, quantity) like an explicit null:
\* the event with the field absent and the event with the field null have the
\* same fingerprint, and both differ from the same event with a supplied
\* value in that field.
C27_AbsentIsNull ==
  \A i, j \in 1..Len(fp.calls) :
    LET c == fp.calls[i]
        d == fp.calls[j]
        f == d.changed
    IN (AcrossChange(c, d) /\ f \in OptionalFields \cup {"quantity"}) =>
         /\ (Unsupplied(f, c.of[f]) /\ Unsupplied(f, d.of[f])) => c.digest = d.digest
         /\ (Unsupplied(f, c.of[f]) # Unsupplied(f, d.of[f])) => c.digest # d.digest

\* The record holds, at some depth, a value with no canonical form: NaN, a
\* function, an object that holds itself.
RECURSIVE NoCanonicalForm(_)
NoCanonicalForm(v) ==
  CASE v.t \in {"nan", "func", "cycle"} -> TRUE
    [] v.t = "arr" -> \E i \in 1..Len(v.a) : NoCanonicalForm(v.a[i])
    [] v.t = "obj" -> \E i \in 1..Len(v.o) : NoCanonicalForm(v.o[i][2])
    [] OTHER -> FALSE

\* C26: fingerprinting a record that holds a value with no canonical form (a
\* function, a cyclic structure, NaN) fails, and no fingerprint is produced.
C26_NoCanonicalFormFails ==
  \A i \in 1..Len(fp.calls) :
    NoCanonicalForm(fp.calls[i].of) =>
      /\ fp.calls[i].error # Null
      /\ fp.calls[i].digest = Null

\* The i-th document was registered from its content: the request gave a
\* content and no fingerprint.
RegisteredFromContent(i) ==
  /\ docCalls.registered[i].content # Undefined
  /\ docCalls.registered[i].sha256Hash = Undefined

\* C28: a document registered from its content is stored without the content
\* and with the content's fingerprint; verifyDocument, once the document is
\* stored, answers valid for that content and not valid for a content of
\* another fingerprint.
C28_DocumentHoldsFingerprintOfContent ==
  \A i \in 1..Len(documents) :
    RegisteredFromContent(i) =>
      LET content == docCalls.registered[i].content
          doc == documents[i]
      IN /\ "content" \notin DOMAIN doc
         /\ doc.sha256Hash = hashDocument(content)
         /\ \A k \in 1..Len(docCalls.verified) :
              (/\ docCalls.verified[k].documentId = doc.documentId
               /\ docCalls.verified[k].result.error = Null) =>
                (docCalls.verified[k].result.valid <=>
                   hashDocument(docCalls.verified[k].content) = hashDocument(content))

\* C29: a stored document never changes: no step changes a field of a
\* document that registerDocument has stored, its link to a batch and to an
\* event included.
C29_StoredDocumentIsImmutable ==
  [][\A i \in 1..Len(documents) : documents'[i] = documents[i]]_vars

\* C30: no two stored batches have the same external reference number.
C30_ReferenceNumberIsUnique ==
  \A i, j \in 1..Len(batches) :
    heap[batches[i][2]].externalReferenceNumber = heap[batches[j][2]].externalReferenceNumber
      => i = j

\* The place of an event in the order of the createEvent calls.
CreationRank(e) == CHOOSE n \in 1..MaxEvents : e.eventId = "e" \o ToString(n)

\* C31: of two events of one batch that carry the same timestamp,
\* getEventsByBatch returns the one created first before the other.
C31_TiesKeepCreationOrder ==
  \A b \in StoredBatchIds :
    LET timeline == dbEventsByBatch(b)
    IN \A i, j \in 1..Len(timeline) :
         (i < j /\ timeline[i].eventTimestamp = timeline[j].eventTimestamp)
           => CreationRank(timeline[i]) < CreationRank(timeline[j])

\* C32: on the same saved events the two stores answer alike: the file-based
\* store's list of a batch's events is the in-memory store's list, the events
\* in ascending order of eventTimestamp.
C32_StoresAnswerAlike ==
  \A b \in StoredBatchIds :
    getEventsForBatch(events, b) = getEventsByBatch(events, b)

\* What the stores hold about a batch, read without the service.
InDispute(b) == \E i \in 1..Len(batches) :
  batches[i][1] = b /\ heap[batches[i][2]].status = "Dispute"
HasCreateEvent(b) == \E i \in 1..Len(events) :
  events[i].batchId = b /\ events[i].eventType = "Create"
HasLinkedDocument(b) == \E i \in 1..Len(documents) : documents[i].relatedBatchId = b
AllAnchored(b) == \A i \in 1..Len(events) :
  events[i].batchId = b => events[i].onChainTxHash \notin {Null, Undefined, EmptyString}

\* C33: the status getChainOfCustody answers is DISPUTED for a batch in
\* Dispute; otherwise INCOMPLETE without a Create event or without a linked
\* document; otherwise PARTIAL when an event has no anchor reference;
\* otherwise VERIFIED.
C33_StatusByPriority ==
  [][(custody' # custody /\ custody'.found) =>
       LET b == custody'.batchId
       IN custody'.verificationStatus =
            IF InDispute(b) THEN "DISPUTED"
            ELSE IF ~HasCreateEvent(b) \/ ~HasLinkedDocument(b) THEN "INCOMPLETE"
            ELSE IF ~AllAnchored(b) THEN "PARTIAL"
            ELSE "VERIFIED"]_vars

C33_Witness ==
  /\ custody.found
  /\ custody.verificationStatus = "VERIFIED"
  /\ custody.documentCount > 0
  /\ Len(custody.timeline) >= 2

\* The entries of log that name the entity.
EntriesNaming(log, entityType, entityId) ==
  Cardinality({k \in 1..Len(log) :
                 log[k].entityType = entityType /\ log[k].entityId = entityId})

\* C34: the audit log is append-only, and a step that stores or changes a
\* batch, an event or a document appends exactly one entry that names it.
C34_AuditLogRecordsEveryWrite ==
  [][LET added == SubSeq(auditLog', Len(auditLog) + 1, Len(auditLog'))
     IN /\ Len(auditLog') >= Len(auditLog)
        /\ SubSeq(auditLog', 1, Len(auditLog)) = auditLog
        /\ \A i \in 1..Len(batches') :
             (i > Len(batches) \/ heap'[batches'[i][2]] # heap[batches[i][2]])
               => EntriesNaming(added, "Batch", batches'[i][1]) = 1
        /\ \A i \in 1..Len(events') :
             (i > Len(events) \/ events'[i] # events[i])
               => EntriesNaming(added, "Event", events'[i].eventId) = 1
        /\ \A i \in 1..Len(documents') :
             (i > Len(documents) \/ documents'[i] # documents[i])
               => EntriesNaming(added, "Document", documents'[i].documentId) = 1]_vars

\* C35: when the chain of custody of a batch reads VERIFIED and the batch is
\* verified on the same stored state, the verification is valid overall and
\* every anchor it checked is verified.
C35_VerifiedStatusIsBackedByVerification ==
  (/\ custody.found
   /\ custody.verificationStatus = "VERIFIED"
   /\ custody = chainOfCustody(custody.batchId)
   /\ verif.pc = "done"
   /\ verif.error = Null
   /\ verif.batchId = custody.batchId
   /\ verif.events = dbEventsByBatch(custody.batchId))
    => /\ verif.overallValid
       /\ \A i \in 1..Len(verif.anchorVerifications) :
            verif.anchorVerifications[i].verified

\* C36: in every state, calls waiting for an anchor included, the eventIds
\* of a stored batch are the ids of the stored events of that batch, each
\* once.
C36_EventIdsMatchStoredEvents ==
  \A k \in 1..Len(batches) :
    LET ids == heap[batches[k][2]].eventIds
    IN /\ \A i, j \in 1..Len(ids) : ids[i] = ids[j] => i = j
       /\ {ids[i] : i \in 1..Len(ids)} =
            {events[i].eventId : i \in {n \in 1..Len(events) :
                                          events[n].batchId = batches[k][1]}}

C36_Witness ==
  /\ ops # {}
  /\ \E k \in 1..Len(batches) : Len(heap[batches[k][2]].eventIds) >= 2
  /\ \E i \in 1..Len(events) : events[i].eventType = "InspectTest"

\* The to-party of the last event of the timeline that hands the batch over
\* (Create, Transfer, Receive).
RECURSIVE CustodianByTimeline(_)
CustodianByTimeline(timeline) ==
  IF timeline = <<>> THEN Null
  ELSE LET last == timeline[Len(timeline)]
       IN IF last.eventType \in {"Create", "Transfer", "Receive"}
          THEN last.toPartyId
          ELSE CustodianByTimeline(SubSeq(timeline, 1, Len(timeline) - 1))

OwnerIsLatestCustodian ==
  \A k \in 1..Len(batches) :
    heap[batches[k][2]].ownerPartyId = CustodianByTimeline(dbEventsByBatch(batches[k][1]))

FromPartyIsOwnerAtEffect ==
  \A p \in ops \ ops' :
    p.op \in {"recordShipment", "recordTransfer", "recordReceipt"} =>
      p.event.fromPartyId = heap[p.batch].ownerPartyId

\* C37: the owner of a stored batch is the to-party of its latest Transfer or
\* Receive event in timeline order (of its Create event when there is none),
\* and a Ship, Transfer or Receive event is stored with the from-party the
\* batch has as owner at the step that stores it.
C37_CustodyIsContinuous ==
  /\ []OwnerIsLatestCustodian
  /\ [][FromPartyIsOwnerAtEffect]_vars

\* In simulation mode the call waiting for anchorHash has its transaction in
\* the list, and its answer is a success.
SimulatedAnchorsAreRecorded ==
  \A p \in ops :
    /\ p.call.simulated
    /\ \E i \in 1..Len(simulatedTransactions) : simulatedTransactions[i].txHash = p.call.txHash
    /\ \A answer \in AnchorAnswers(p.call) : answer.success /\ answer.txHash = p.call.txHash

\* Every stored event has an anchor reference, and verifyAnchor finds it, in
\* this state and in every verification made.
StoredAnchorsVerify ==
  /\ \A i \in 1..Len(events) :
       /\ ~Falsy(events[i].onChainTxHash)
       /\ \A answer \in verifyAnchor(events[i].onChainTxHash) : answer.verified
  /\ \A i \in 1..Len(verif.anchorVerifications) : verif.anchorVerifications[i].verified

SimulatedTransactionsGrow ==
  /\ Len(simulatedTransactions') >= Len(simulatedTransactions)
  /\ SubSeq(simulatedTransactions', 1, Len(simulatedTransactions)) = simulatedTransactions

\* C38: while the service is in simulation mode, every anchorHash call
\* succeeds and is recorded, the list of simulated transactions only grows,
\* and the anchor reference of every stored event is verified at any later
\* time.
C38_SimulatedAnchorsStayVerified ==
  /\ [](simulationMode /\ SimulatedAnchorsAreRecorded /\ StoredAnchorsVerify)
  /\ [][SimulatedTransactionsGrow]_vars

C38_Witness ==
  /\ simulationMode
  /\ provider
  /\ verif.pc = "done"
  /\ Len(verif.anchorVerifications) >= 2
  /\ Len(simulatedTransactions) >= 3

\* The files hold the records of the maps.
FilesMatchMaps ==
  /\ disk.batches = batchValues(batches, heap)
  /\ disk.events = events
  /\ disk.documents = documents

\* C39: on the file-based store the files hold, after every step of a call,
\* the batches, events and documents of the maps, and a restart restores
\* them as they were, the documents' links to batches included.
C39_FilesMatchMaps ==
  /\ [](usePersistent => FilesMatchMaps)
  /\ [][disk'.loads # disk.loads =>
          /\ batchValues(batches', heap') = batchValues(batches, heap)
          /\ events' = events
          /\ documents' = documents]_vars

=============================================================================
